---- MODULE Spec2Model ----
(***************************************************************************)
(* Model of the kittenExport Blender add-on: the metadata serializers of   *)
(* utils.py / __init__.py and the operators of operators.py.               *)
(*                                                                         *)
(* Conventions.                                                            *)
(*   - Python None is NoneV, a Python list is L(<<...>>); a dict is a      *)
(*     record whose DOMAIN is the set of keys that are present.            *)
(*   - A float is an integer number of thousandths (40.0 is 40000, 0.008  *)
(*     is 8); Fl(n) is the float of the integer n and str(float) is PyStr. *)
(*     Angles are counted in quarter turns and cos/sin are taken exactly   *)
(*     on them (the rounding residue of math.cos(pi/2) is not              *)
(*     represented).                                                       *)
(*   - Strings that the code inspects (object names, file paths) are       *)
(*     sequences of tokens.                                                *)
(***************************************************************************)
EXTENDS Integers, Sequences, FiniteSets, TLC

VARIABLES
    objects,    \* bpy.data.objects: sequence of object records, index = identity
    has_tp,     \* bpy.types.Object has the thruster_props pointer property
    has_ep,     \* bpy.types.Object has the engine_props pointer property
    selected,   \* indices of the selected objects
    active,     \* context.view_layer.objects.active: an index, or 0 for None
    files,      \* file system: path -> sequence of chunks written
    op,         \* the operator (or function) that ran last
    result,     \* its return value
    reports,    \* its self.report calls, in order
    root,       \* the XML tree it built
    hostlog,    \* host calls with an outside effect, in order
    pre,        \* what the call was given: context.scene present, filepath
    arg,        \* the dict handed to a serializer called on its own
    mode,       \* context.mode: "OBJECT" or "EDIT_MESH"
    mesh,       \* the vertices of the mesh being edited, or None
    host        \* registered classes and the draw functions appended to menus

vars == <<objects, has_tp, has_ep, selected, active, files, op, result,
          reports, root, hostlog, pre, arg, mode, mesh, host>>

-----------------------------------------------------------------------------
(* Bounds *)

MaxObjects == 2     \* objects in a scene
MaxCoord == 1       \* coordinates range over 0..MaxCoord
MaxFlags == 7       \* longest control map handed to a serializer
MaxCalls == 2       \* serializer calls on one parent element
MaxFaults == 2      \* host calls that raise during one operator call
MaxRegistrations == 3   \* register() calls not undone by an unregister()

-----------------------------------------------------------------------------
(* Python values *)

NoneV == [none |-> TRUE]

L(s) == [list |-> s]

IsList(v) == "list" \in DOMAIN v

\* bool(v) for None and lists
Truthy(v) == IsList(v) /\ Len(v.list) > 0

\* dict.get(key, default)
Get(d, key, default) == IF key \in DOMAIN d THEN d[key] ELSE default

\* the float of an integer
Fl(n) == n * 1000

\* a * b on floats (split so that the intermediate product stays small)
FMul(a, b) == (a \div 1000) * b + ((a % 1000) * b) \div 1000

\* str(x) of a float: shortest decimal form, at least one fractional digit
PyStr(x) ==
    LET a == IF x < 0 THEN -x ELSE x
        fr == a % 1000
        d1 == ToString(fr \div 100)
        d2 == ToString((fr \div 10) % 10)
        d3 == ToString(fr % 10)
    IN (IF x < 0 THEN "-" ELSE "") \o ToString(a \div 1000) \o "." \o
       (IF fr % 10 # 0 THEN d1 \o d2 \o d3
        ELSE IF fr % 100 # 0 THEN d1 \o d2
        ELSE d1)

\* str.startswith on token sequences
StartsWith(name, prefix) == Len(name) >= 1 /\ name[1] = prefix

\* math.cos / math.sin of q quarter turns
Cos(q) == CASE q % 4 = 0 -> 1 [] q % 4 = 2 -> -1 [] OTHER -> 0

Sin(q) == CASE q % 4 = 1 -> 1 [] q % 4 = 3 -> -1 [] OTHER -> 0

\* xml.etree.ElementTree.SubElement(parent, ...): append a child
SubElement(parent, child) == [parent EXCEPT !.children = Append(@, child)]

Element(tag, attrib) == [tag |-> tag, attrib |-> attrib, children |-> <<>>]

-----------------------------------------------------------------------------
(* utils.py / __init__.py: dict -> XML element *)

trans_labels ==
    <<"TranslateForward", "TranslateBackward", "TranslateLeft",
      "TranslateRight", "TranslateUp", "TranslateDown">>

rot_labels ==
    <<"PitchUp", "PitchDown", "RollLeft", "RollRight", "YawLeft", "YawRight">>

\* mathutils.Euler(rotation, 'XYZ').to_matrix() @ Vector((0, 0, 1)), normalized
EulerLocalZ(r) ==
    << Fl(Sin(r[2]) * Cos(r[1]) * Cos(r[3]) + Sin(r[1]) * Sin(r[3])),
       Fl(Sin(r[2]) * Cos(r[1]) * Sin(r[3]) - Sin(r[1]) * Cos(r[3])),
       Fl(Cos(r[2]) * Cos(r[1])) >>

\* the cos/sin expression of the engine serializer (and of the thruster
\* serializer of __init__.py)
TrigExDir(r) ==
    << Fl(Cos(r[2]) * Cos(r[3])), Fl(Cos(r[2]) * Sin(r[3])), Fl(Sin(r[2])) >>

DefaultExDir == <<Fl(1), Fl(0), Fl(0)>>

XYZ(tag, v) ==
    Element(tag, [X |-> PyStr(v[1]), Y |-> PyStr(v[2]), Z |-> PyStr(v[3])])

\* the Location child of a thruster: location plus fx_location
ThrusterFinalLoc(d) ==
    LET loc == Get(d, "location", L(<<Fl(0), Fl(0), Fl(0)>>))
        fx_offset == Get(d, "fx_location", L(<<Fl(0), Fl(0), Fl(0)>>))
    IN IF Truthy(loc) /\ Truthy(fx_offset)
       THEN L(<< loc.list[1] + fx_offset.list[1],
                 loc.list[2] + fx_offset.list[2],
                 loc.list[3] + fx_offset.list[3] >>)
       ELSE loc

\* utils.py: exhaust direction of a thruster
ThrusterExDir(d) ==
    LET rotation == Get(d, "rotation", L(<<0, 0, 0>>))
    IN IF Truthy(rotation) THEN EulerLocalZ(rotation.list) ELSE DefaultExDir

\* __init__.py: exhaust direction of a thruster
InitThrusterExDir(d) ==
    LET rotation == Get(d, "rotation", L(<<0, 0, 0>>))
    IN IF Truthy(rotation) THEN TrigExDir(rotation.list) ELSE DefaultExDir

\* exhaust direction of an engine
EngineExDir(d) ==
    LET rotation == Get(d, "rotation", L(<<0, 0, 0>>))
    IN IF Truthy(rotation) THEN TrigExDir(rotation.list) ELSE DefaultExDir

\* for i, enabled in enumerate(map): if enabled and i < len(labels): append
RECURSIVE Enabled(_, _, _)
Enabled(map, labels, i) ==
    IF i > Len(map) THEN <<>>
    ELSE (IF map[i] /\ i <= Len(labels) THEN <<labels[i]>> ELSE <<>>)
         \o Enabled(map, labels, i + 1)

\* csv_parts had the rotation loop run before the translation loop
CsvParts_RotationFirst(d) ==
    LET trans_map == Get(d, "control_map_translation", L(<<>>))
        rot_map == Get(d, "control_map_rotation", L(<<>>))
    IN (IF Truthy(rot_map) THEN Enabled(rot_map.list, rot_labels, 1) ELSE <<>>)
       \o (IF Truthy(trans_map) THEN Enabled(trans_map.list, trans_labels, 1) ELSE <<>>)

\* csv_parts after both loops
CsvParts(d) ==
    LET trans_map == Get(d, "control_map_translation", L(<<>>))
        rot_map == Get(d, "control_map_rotation", L(<<>>))
    IN (IF Truthy(trans_map) THEN Enabled(trans_map.list, trans_labels, 1) ELSE <<>>)
       \o (IF Truthy(rot_map) THEN Enabled(rot_map.list, rot_labels, 1) ELSE <<>>)

\* ','.join(parts)
RECURSIVE Join(_)
Join(parts) ==
    IF Len(parts) = 0 THEN ""
    ELSE IF Len(parts) = 1 THEN parts[1]
    ELSE parts[1] \o "," \o Join(Tail(parts))

\* mutant of ThrusterChildren: no Location unless location and fx_location
\* are both there
ThrusterChildren_LocationNeedsFx(d, ex_dir) ==
    LET final_loc == ThrusterFinalLoc(d)
    IN (IF Truthy(final_loc) /\ Truthy(Get(d, "fx_location", L(<<Fl(0), Fl(0), Fl(0)>>)))
        THEN <<XYZ("Location", final_loc.list)>> ELSE <<>>)
       \o << XYZ("ExhaustDirection", ex_dir),
             Element("ControlMap", [CSV |-> Join(CsvParts(d))]),
             Element("Thrust", [N |-> PyStr(Get(d, "thrust_n", Fl(40)))]),
             Element("SpecificImpulse",
                     [Seconds |-> PyStr(Get(d, "specific_impulse_seconds", Fl(220)))]),
             Element("MinimumPulseTime",
                     [Seconds |-> PyStr(Get(d, "minimum_pulse_time_seconds", 8))]),
             Element("VolumetricExhaust",
                     [Id |-> Get(d, "volumetric_exhaust_id", "ApolloRCS")]),
             Element("SoundEvent",
                     [Action |-> "On",
                      SoundId |-> Get(d, "sound_event_on", "DefaultRcsThruster")]) >>

\* the children of a Thruster element, given its exhaust direction
ThrusterChildren(d, ex_dir) ==
    LET final_loc == ThrusterFinalLoc(d)
    IN (IF Truthy(final_loc) THEN <<XYZ("Location", final_loc.list)>> ELSE <<>>)
       \o << XYZ("ExhaustDirection", ex_dir),
             Element("ControlMap", [CSV |-> Join(CsvParts(d))]),
             Element("Thrust", [N |-> PyStr(Get(d, "thrust_n", Fl(40)))]),
             Element("SpecificImpulse",
                     [Seconds |-> PyStr(Get(d, "specific_impulse_seconds", Fl(220)))]),
             Element("MinimumPulseTime",
                     [Seconds |-> PyStr(Get(d, "minimum_pulse_time_seconds", 8))]),
             Element("VolumetricExhaust",
                     [Id |-> Get(d, "volumetric_exhaust_id", "ApolloRCS")]),
             Element("SoundEvent",
                     [Action |-> "On",
                      SoundId |-> Get(d, "sound_event_on", "DefaultRcsThruster")]) >>

\* utils._thruster_dict_to_xml_element(parent, thruster_data)
thruster_dict_to_xml_element(parent, d) ==
    SubElement(parent,
        [tag |-> "Thruster", attrib |-> [Id |-> Get(d, "name", <<"Unnamed">>)],
         children |-> ThrusterChildren(d, ThrusterExDir(d))])

\* __init__._thruster_dict_to_xml_element(parent, thruster_data)
init_thruster_dict_to_xml_element(parent, d) ==
    SubElement(parent,
        [tag |-> "Thruster", attrib |-> [Id |-> Get(d, "name", <<"Unnamed">>)],
         children |-> ThrusterChildren(d, InitThrusterExDir(d))])

\* mutant of EngineThrustN: kilonewtons written as they are
EngineThrustN_Unconverted(d) == Get(d, "thrust_kn", Fl(650))

\* thrust_kn * 1000.0
EngineThrustN(d) == FMul(Get(d, "thrust_kn", Fl(650)), Fl(1000))

\* _engine_dict_to_xml_element(parent, engine_data)
engine_dict_to_xml_element(parent, d) ==
    LET loc == Get(d, "location", L(<<Fl(0), Fl(0), Fl(0)>>))
    IN SubElement(parent,
        [tag |-> "Engine", attrib |-> [Id |-> Get(d, "name", <<"Unnamed">>)],
         children |->
            (IF Truthy(loc) THEN <<XYZ("Location", loc.list)>> ELSE <<>>)
            \o << XYZ("ExhaustDirection", EngineExDir(d)),
                  Element("Thrust", [N |-> PyStr(EngineThrustN(d))]),
                  Element("SpecificImpulse",
                          [Seconds |-> PyStr(Get(d, "specific_impulse_seconds", Fl(452)))]),
                  Element("MinimumThrottle",
                          [Value |-> PyStr(Get(d, "minimum_throttle", 50))]),
                  Element("VolumetricExhaust",
                          [Id |-> Get(d, "volumetric_exhaust_id", "ApolloCSM")]),
                  Element("SoundEvent",
                          [Action |-> "On",
                           SoundId |-> Get(d, "sound_event_action_on",
                                           "DefaultEngineSoundBehavior")]) >>])

-----------------------------------------------------------------------------
(* properties.py: the property groups and their defaults *)

NoFlags == L(<<FALSE, FALSE, FALSE, FALSE, FALSE, FALSE>>)

ThrusterProperties ==
    [fx_location |-> L(<<Fl(0), Fl(0), Fl(0)>>),
     thrust_n |-> Fl(40),
     specific_impulse_seconds |-> Fl(0),
     minimum_pulse_time_seconds |-> Fl(0),
     volumetric_exhaust_id |-> "ApolloRCS",
     sound_event_on |-> "DefaultRcdThruster",
     control_map_translation |-> NoFlags,
     control_map_rotation |-> NoFlags,
     exportable |-> TRUE]

EngineProperties ==
    [thrust_kn |-> Fl(650),
     specific_impulse_seconds |-> Fl(10000),
     minimum_throttle |-> 50,
     volumetric_exhaust_id |-> "ApolloCSM",
     sound_event_action_on |-> "DefaultEngineSoundBehavior",
     exportable |-> TRUE]

-----------------------------------------------------------------------------
(* The host's objects *)

\* the transform an object inherits from its parent: a translation and a
\* rotation about Z in quarter turns; the identity for an unparented object
NoParent == [offset |-> <<Fl(0), Fl(0), Fl(0)>>, zturn |-> 0]

\* bpy.data.objects.new(name, None): an Empty at the origin
NewObject(name) ==
    [name |-> name,
     location |-> <<Fl(0), Fl(0), Fl(0)>>,
     rotation_euler |-> <<0, 0, 0>>,
     parent |-> NoParent,
     is_thruster |-> FALSE,        \* has the custom property _is_thruster
     is_engine |-> FALSE,          \* has the custom property _is_engine
     no_export |-> FALSE,          \* has the custom property _no_export
     thruster_meta |-> NoneV,      \* obj.get('_thruster_meta')
     engine_meta |-> NoneV,        \* obj.get('_engine_meta')
     in_scene |-> FALSE,           \* linked to a collection of the scene
     tp |-> ThrusterProperties,
     ep |-> EngineProperties]

\* the host keeps object names unique by a numeric suffix: object i carries
\* suffix i
NameOf(base, i) == <<base, ".00" \o ToString(i)>>

\* the name the host gives the next new object
UniqueName(base) == NameOf(base, Len(objects) + 1)

\* scene.objects, in order
RECURSIVE SceneFrom(_)
SceneFrom(i) ==
    IF i > Len(objects) THEN <<>>
    ELSE (IF objects[i].in_scene THEN <<i>> ELSE <<>>) \o SceneFrom(i + 1)

SceneObjects == SceneFrom(1)

\* getattr(obj, 'thruster_props', None) / getattr(obj, 'engine_props', None)
thruster_props(o) == IF has_tp THEN o.tp ELSE NoneV

engine_props(o) == IF has_ep THEN o.ep ELSE NoneV

\* utils._safe_vector_to_list
safe_vector_to_list(vec_prop) == IF IsList(vec_prop) THEN vec_prop ELSE NoneV

-----------------------------------------------------------------------------
(* operators.py: OBJECT_OT_export_ksa_metadata *)

\* mutant of IsExportedThruster: the exportable flag is not looked at
IsExportedThruster_IgnoresFlag(o) ==
    /\ o.is_thruster \/ StartsWith(o.name, "Thruster")
    /\ thruster_props(o) # NoneV

IsExportedThruster(o) ==
    /\ o.is_thruster \/ StartsWith(o.name, "Thruster")
    /\ thruster_props(o) # NoneV
    /\ thruster_props(o).exportable

IsExportedEngine(o) ==
    /\ o.is_engine \/ StartsWith(o.name, "Engine")
    /\ engine_props(o) # NoneV
    /\ engine_props(o).exportable

\* mutant of ThrusterEntry: the entry leaves specific_impulse_seconds,
\* minimum_pulse_time_seconds and sound_event_on out
ThrusterEntry_WithoutKeys(o) ==
    [name |-> o.name,
     location |-> L(o.location),
     rotation |-> L(o.rotation_euler),
     fx_location |-> safe_vector_to_list(o.tp.fx_location),
     thrust_n |-> o.tp.thrust_n,
     volumetric_exhaust_id |-> o.tp.volumetric_exhaust_id,
     control_map_translation |-> safe_vector_to_list(o.tp.control_map_translation),
     control_map_rotation |-> safe_vector_to_list(o.tp.control_map_rotation),
     exportable |-> o.tp.exportable]

\* the entry dict built for one thruster
ThrusterEntry(o) ==
    [name |-> o.name,
     location |-> L(o.location),
     rotation |-> L(o.rotation_euler),
     fx_location |-> safe_vector_to_list(o.tp.fx_location),
     thrust_n |-> o.tp.thrust_n,
     specific_impulse_seconds |-> o.tp.specific_impulse_seconds,
     minimum_pulse_time_seconds |-> o.tp.minimum_pulse_time_seconds,
     volumetric_exhaust_id |-> o.tp.volumetric_exhaust_id,
     sound_event_on |-> o.tp.sound_event_on,
     control_map_translation |-> safe_vector_to_list(o.tp.control_map_translation),
     control_map_rotation |-> safe_vector_to_list(o.tp.control_map_rotation),
     exportable |-> o.tp.exportable]

EngineEntry(o) ==
    [name |-> o.name,
     location |-> L(o.location),
     rotation |-> L(o.rotation_euler),
     thrust_kn |-> o.ep.thrust_kn,
     specific_impulse_seconds |-> o.ep.specific_impulse_seconds,
     minimum_throttle |-> o.ep.minimum_throttle,
     volumetric_exhaust_id |-> o.ep.volumetric_exhaust_id,
     sound_event_action_on |-> o.ep.sound_event_action_on,
     exportable |-> o.ep.exportable]

\* the first loop over scene.objects: the thrusters list
RECURSIVE KsaThrusters(_)
KsaThrusters(scene) ==
    IF scene = <<>> THEN <<>>
    ELSE (IF IsExportedThruster(objects[Head(scene)])
          THEN <<ThrusterEntry(objects[Head(scene)])>> ELSE <<>>)
         \o KsaThrusters(Tail(scene))

\* the second loop over scene.objects: the engines list
RECURSIVE KsaEngines(_)
KsaEngines(scene) ==
    IF scene = <<>> THEN <<>>
    ELSE (IF IsExportedEngine(objects[Head(scene)])
          THEN <<EngineEntry(objects[Head(scene)])>> ELSE <<>>)
         \o KsaEngines(Tail(scene))

RECURSIVE AddThrusters(_, _)
AddThrusters(parent, list) ==
    IF list = <<>> THEN parent
    ELSE AddThrusters(thruster_dict_to_xml_element(parent, Head(list)), Tail(list))

RECURSIVE AddEngines(_, _)
AddEngines(parent, list) ==
    IF list = <<>> THEN parent
    ELSE AddEngines(engine_dict_to_xml_element(parent, Head(list)), Tail(list))

\* root after both serializer loops
KsaRoot(thrusters, engines) ==
    AddEngines(AddThrusters(Element("KSAMetadata", NoneV), thrusters), engines)

\* ET.tostring(root, encoding='utf-8').decode('utf-8')
tostring(tree) == [xml |-> tree]

Report(level, msg, counts, path) ==
    [level |-> level, msg |-> msg, counts |-> counts, path |-> path]

\* what a handler is called with and what it finds
CallState(scene_present, filepath) ==
    [scene |-> scene_present, filepath |-> filepath]

HostCall(call, path, ok) == [call |-> call, path |-> path, ok |-> ok]

\* the files written by a call: path -> chunks
NoFiles == [p \in {} |-> <<>>]

\* mutant of OpenAndWrite: a failed f.write goes unnoticed
OpenAndWrite_IgnoresWriteError(path, open_ok, chunks, written) ==
    IF path = <<>> \/ ~open_ok
    THEN [log |-> <<HostCall("open", path, FALSE)>>, files |-> NoFiles, ok |-> FALSE]
    ELSE [log |-> <<HostCall("open", path, TRUE)>>
                  \o [k \in 1..written |-> HostCall("write", path, TRUE)]
                  \o (IF written < Len(chunks)
                      THEN <<HostCall("write", path, FALSE)>> ELSE <<>>),
          files |-> (path :> SubSeq(chunks, 1, written)),
          ok |-> TRUE]

\* open(path, 'w') and the f.write calls: written of the chunks go through
OpenAndWrite(path, open_ok, chunks, written) ==
    IF path = <<>> \/ ~open_ok
    THEN [log |-> <<HostCall("open", path, FALSE)>>, files |-> NoFiles, ok |-> FALSE]
    ELSE [log |-> <<HostCall("open", path, TRUE)>>
                  \o [k \in 1..written |-> HostCall("write", path, TRUE)]
                  \o (IF written < Len(chunks)
                      THEN <<HostCall("write", path, FALSE)>> ELSE <<>>),
          files |-> (path :> SubSeq(chunks, 1, written)),
          ok |-> written = Len(chunks)]

\* mutant of export_ksa_metadata: execute() deselecting every object once it
\* has a scene, as export_glb_with_meta does before it selects
export_ksa_metadata_Deselects(scene_present, filepath, open_ok, written) ==
    LET thrusters == KsaThrusters(SceneObjects)
        engines == KsaEngines(SceneObjects)
        tree == KsaRoot(thrusters, engines)
        io == OpenAndWrite(filepath, open_ok, <<"\n", tostring(tree)>>, written)
    IN /\ op' = "export_ksa_metadata"
       /\ pre' = CallState(scene_present, filepath)
       /\ arg' = NoneV
       /\ selected' = {}
       /\ UNCHANGED <<objects, has_tp, has_ep, active, mode, mesh, host>>
       /\ IF ~scene_present
          THEN /\ reports' = <<Report("ERROR", "No scene found", <<>>, <<>>)>>
               /\ result' = "CANCELLED"
               /\ root' = NoneV
               /\ hostlog' = <<>>
               /\ files' = NoFiles
          ELSE /\ root' = tree
               /\ hostlog' = io.log
               /\ files' = io.files
               /\ IF io.ok
                  THEN /\ reports' = <<Report("INFO", "Exported",
                                              <<Len(thrusters), Len(engines)>>, filepath)>>
                       /\ result' = "FINISHED"
                  ELSE /\ reports' = <<Report("ERROR", "Export failed", <<>>, <<>>)>>
                       /\ result' = "CANCELLED"

\* execute(): scene_present says whether context.scene is not None, open_ok
\* whether the host lets the file be opened, written how many of the two
\* f.write calls go through
export_ksa_metadata(scene_present, filepath, open_ok, written) ==
    LET thrusters == KsaThrusters(SceneObjects)
        engines == KsaEngines(SceneObjects)
        tree == KsaRoot(thrusters, engines)
        io == OpenAndWrite(filepath, open_ok, <<"\n", tostring(tree)>>, written)
    IN /\ op' = "export_ksa_metadata"
       /\ pre' = CallState(scene_present, filepath)
       /\ arg' = NoneV
       /\ UNCHANGED <<objects, has_tp, has_ep, selected, active, mode, mesh, host>>
       /\ IF ~scene_present
          THEN /\ reports' = <<Report("ERROR", "No scene found", <<>>, <<>>)>>
               /\ result' = "CANCELLED"
               /\ root' = NoneV
               /\ hostlog' = <<>>
               /\ files' = NoFiles
          ELSE /\ root' = tree
               /\ hostlog' = io.log
               /\ files' = io.files
               /\ IF io.ok
                  THEN /\ reports' = <<Report("INFO", "Exported",
                                              <<Len(thrusters), Len(engines)>>, filepath)>>
                       /\ result' = "FINISHED"
                  ELSE /\ reports' = <<Report("ERROR", "Export failed", <<>>, <<>>)>>
                       /\ result' = "CANCELLED"

\* file paths handed to export_ksa_metadata: none, and the one invoke() presets
KsaPaths == {<<>>, <<"ksa_metadata", ".", "xml">>}

ExportKsaMetadata ==
    \E filepath \in KsaPaths :
        \/ export_ksa_metadata(FALSE, filepath, TRUE, 2)
        \/ export_ksa_metadata(TRUE, filepath, FALSE, 0)
        \/ \E written \in 0..2 :
            filepath # <<>> /\ export_ksa_metadata(TRUE, filepath, TRUE, written)

-----------------------------------------------------------------------------
(* operators.py: OBJECT_OT_export_glb_with_meta *)

\* The string in the custom property _thruster_meta is kept as what it
\* holds: "empty" is '', "baked" the <metadata> document bake_thruster_meta
\* writes, "json_dict" a JSON object, "json_list" a JSON array of two objects,
\* "json_number_name" a JSON object whose name is a number.
MetaString(form) == [form |-> form]

\* a value that is a number where a string is expected
JsonNumber(digits) == <<"<number>", digits>>

\* a JSON object as json.loads returns it
JsonThruster(name) == [name |-> name, thrust_n |-> Fl(220)]

\* utils.parse_meta_string(s): a <metadata> root is neither 'thruster' nor
\* 'thrusters' and is no JSON either
parse_meta_string(st) ==
    CASE st.form = "json_dict" -> [dict |-> JsonThruster(<<"Parsed">>)]
      [] st.form = "json_number_name" -> [dict |-> JsonThruster(JsonNumber("5"))]
      [] st.form = "json_list" ->
            L(<<JsonThruster(<<"First">>), JsonThruster(<<"Second">>)>>)
      [] OTHER -> NoneV

\* the entry export_glb_with_meta builds from thruster_props
GlbEntry(o) ==
    [name |-> o.name,
     thrust_n |-> o.tp.thrust_n,
     specific_impulse_seconds |-> o.tp.specific_impulse_seconds,
     minimum_pulse_time_seconds |-> o.tp.minimum_pulse_time_seconds,
     volumetric_exhaust_id |-> o.tp.volumetric_exhaust_id,
     sound_event_on |-> o.tp.sound_event_on,
     control_map_translation |-> safe_vector_to_list(o.tp.control_map_translation),
     control_map_rotation |-> safe_vector_to_list(o.tp.control_map_rotation),
     exportable |-> o.tp.exportable,
     location |-> L(o.location)]

\* o counts as a thruster object
IsGlbThruster(o) == o.thruster_meta # NoneV \/ thruster_props(o) # NoneV

\* [o for o in scene.objects if ...], as indices
RECURSIVE Filter(_, _)
Filter(scene, keep) ==
    IF scene = <<>> THEN <<>>
    ELSE (IF Head(scene) \in keep THEN <<Head(scene)>> ELSE <<>>)
         \o Filter(Tail(scene), keep)

GlbThrusters ==
    Filter(SceneObjects, {i \in 1..Len(objects) : IsGlbThruster(objects[i])})

GlbNonThrusters ==
    Filter(SceneObjects, {i \in 1..Len(objects) : ~IsGlbThruster(objects[i])})

\* what one thruster object adds to meta_list
MetaOf(o) ==
    LET jm == o.thruster_meta
        parsed == IF jm # NoneV /\ jm.form # "empty" THEN parse_meta_string(jm) ELSE NoneV
    IN IF "dict" \in DOMAIN parsed THEN <<parsed.dict>>
       ELSE IF IsList(parsed) THEN parsed.list
       ELSE IF thruster_props(o) # NoneV THEN <<GlbEntry(o)>>
       ELSE <<>>

RECURSIVE MetaList(_)
MetaList(thrusters) ==
    IF thrusters = <<>> THEN <<>>
    ELSE MetaOf(objects[Head(thrusters)]) \o MetaList(Tail(thrusters))

\* ET.tostring raises TypeError on an attribute that is no string
Serializable(meta) == Get(meta, "name", <<"Unnamed">>)[1] # "<number>"

\* utils.thrusters_list_to_xml_str: the indented document with \r\n line ends
thrusters_list_to_xml_str(list_of_meta) ==
    [xml |-> AddThrusters(Element("Thrusters", NoneV), list_of_meta),
     indent |-> "  ", newline |-> "\r\n"]

LastIndex(path, token) ==
    LET ks == {k \in 1..Len(path) : path[k] = token}
    IN IF ks = {} THEN 0 ELSE CHOOSE k \in ks : \A j \in ks : j <= k

\* os.path.splitext(path)[0]: cut at the last dot of the last component,
\* unless that component has nothing but dots before it
SplitextRoot(path) ==
    LET sep == LastIndex(path, "/")
        dot == LastIndex(path, ".")
    IN IF dot > sep /\ \E k \in (sep + 1)..(dot - 1) : path[k] # "."
       THEN SubSeq(path, 1, dot - 1) ELSE path

MetaPath(filepath) == SplitextRoot(filepath) \o <<"_meta.xml">>

Site(call, obj) == [site |-> call, obj |-> obj]

\* the host calls execute() makes inside a try block: deselect, select_set on
\* every non-thruster, the active object when there is a non-thruster, the
\* exporter, open and write of the metadata file, and in the finally block
\* deselect, select_set on every object of prev_selected, and the active
\* object when prev_active is not None
GlbSites ==
    {Site(c, 0) : c \in {"deselect", "gltf", "open", "write", "final_deselect"}}
    \cup {Site("select", GlbNonThrusters[k]) : k \in 1..Len(GlbNonThrusters)}
    \cup (IF GlbNonThrusters # <<>> THEN {Site("activate", 0)} ELSE {})
    \cup {Site("restore", i) : i \in selected}
    \cup (IF active # 0 THEN {Site("final_activate", 0)} ELSE {})

\* a call that is not reached cannot raise: open needs the exporter to have
\* returned, write needs the file to be open
Reached(failing) ==
    /\ Site("open", 0) \in failing => Site("gltf", 0) \notin failing
    /\ Site("write", 0) \in failing => failing \cap {Site("gltf", 0), Site("open", 0)} = {}

\* the selection and the active object when the glTF exporter is invoked
GlbSelect(failing) ==
    LET non_thrusters == GlbNonThrusters
        cleared == IF Site("deselect", 0) \in failing THEN selected ELSE {}
    IN [selected |-> cleared \cup {i \in 1..Len(objects) :
                        /\ \E k \in 1..Len(non_thrusters) : non_thrusters[k] = i
                        /\ Site("select", i) \notin failing},
        active |-> IF non_thrusters # <<>> /\ Site("activate", 0) \notin failing
                   THEN non_thrusters[1] ELSE active]

\* the finally block: from selection sel, restore prev_selected and prev_active
GlbRestore(sel, prev_selected, prev_active, failing) ==
    LET cleared == IF Site("final_deselect", 0) \in failing THEN sel.selected ELSE {}
    IN [selected |-> cleared \cup {i \in prev_selected : Site("restore", i) \notin failing},
        active |-> IF prev_active # 0 /\ Site("final_activate", 0) \notin failing
                   THEN prev_active ELSE sel.active]

GltfCall(filepath, sel, ok) ==
    [call |-> "gltf", path |-> filepath, ok |-> ok, selection |-> sel.selected]

\* mutant of GlbExport: the metadata file is written before the exporter runs
GlbExport_MetaFirst(filepath, sel, failing) ==
    LET meta_list == MetaList(GlbThrusters)
        meta_path == MetaPath(filepath)
        gltf_ok == Site("gltf", 0) \notin failing
        built == \A k \in 1..Len(meta_list) : Serializable(meta_list[k])
        io == IF built
              THEN OpenAndWrite(meta_path, Site("open", 0) \notin failing,
                                <<thrusters_list_to_xml_str(meta_list)>>,
                                IF Site("write", 0) \in failing THEN 0 ELSE 1)
              ELSE [log |-> <<>>, files |-> NoFiles, ok |-> FALSE]
        log == <<HostCall("thrusters_list_to_xml_str", meta_path, built)>> \o io.log
                    \o <<GltfCall(filepath, sel, gltf_ok)>>
    IN IF ~gltf_ok
       THEN [log |-> log, files |-> io.files, result |-> "CANCELLED",
             reports |-> <<Report("ERROR", "GLB export failed", <<>>, <<>>)>>]
       ELSE IF ~io.ok
       THEN [log |-> log, files |-> io.files, result |-> "FINISHED",
             reports |-> <<Report("WARNING", "GLB exported but failed to write meta file",
                                  <<>>, <<>>)>>]
       ELSE [log |-> log, files |-> io.files, result |-> "FINISHED",
             reports |-> <<Report("INFO", "Exported GLB and wrote metadata",
                                  <<Len(meta_list)>>, meta_path)>>]

\* the body of the try block from the exporter call on: the host calls made,
\* the files written, the report and the result
GlbExport(filepath, sel, failing) ==
    LET meta_list == MetaList(GlbThrusters)
        meta_path == MetaPath(filepath)
        gltf_ok == Site("gltf", 0) \notin failing
        built == \A k \in 1..Len(meta_list) : Serializable(meta_list[k])
        io == IF built
              THEN OpenAndWrite(meta_path, Site("open", 0) \notin failing,
                                <<thrusters_list_to_xml_str(meta_list)>>,
                                IF Site("write", 0) \in failing THEN 0 ELSE 1)
              ELSE [log |-> <<>>, files |-> NoFiles, ok |-> FALSE]
    IN IF ~gltf_ok
       THEN [log |-> <<GltfCall(filepath, sel, FALSE)>>, files |-> NoFiles,
             result |-> "CANCELLED",
             reports |-> <<Report("ERROR", "GLB export failed", <<>>, <<>>)>>]
       ELSE IF ~io.ok
       THEN [log |-> <<GltfCall(filepath, sel, TRUE),
                       HostCall("thrusters_list_to_xml_str", meta_path, built)>> \o io.log,
             files |-> io.files, result |-> "FINISHED",
             reports |-> <<Report("WARNING", "GLB exported but failed to write meta file",
                                  <<>>, <<>>)>>]
       ELSE [log |-> <<GltfCall(filepath, sel, TRUE),
                       HostCall("thrusters_list_to_xml_str", meta_path, TRUE)>> \o io.log,
             files |-> io.files, result |-> "FINISHED",
             reports |-> <<Report("INFO", "Exported GLB and wrote metadata",
                                  <<Len(meta_list)>>, meta_path)>>]

\* execute(): failing is the set of host calls that raise
export_glb_with_meta(scene_present, filepath, failing) ==
    LET sel == GlbSelect(failing)
        out == GlbExport(filepath, sel, failing)
        restored == GlbRestore(sel, selected, active, failing)
    IN /\ op' = "export_glb_with_meta"
       /\ pre' = CallState(scene_present, filepath)
       /\ arg' = NoneV
       /\ root' = NoneV
       /\ UNCHANGED <<objects, has_tp, has_ep, mode, mesh, host>>
       /\ IF ~scene_present
          THEN /\ reports' = <<Report("ERROR", "No scene found", <<>>, <<>>)>>
               /\ result' = "CANCELLED"
               /\ hostlog' = <<>>
               /\ files' = NoFiles
               /\ UNCHANGED <<selected, active>>
          ELSE /\ reports' = out.reports
               /\ result' = out.result
               /\ hostlog' = out.log
               /\ files' = out.files
               /\ selected' = restored.selected
               /\ active' = restored.active

\* GLB output paths: none, with an extension, and with a dot in a directory only
GlbPaths == {<<>>, <<"ship", ".", "glb">>, <<"out", ".", "d", "/", "ship">>}

\* at most MaxFaults of the host calls raise
Faults(sites) == {f \in SUBSET sites : Cardinality(f) <= MaxFaults}

\* every path without a failing host call, and every choice of failing host
\* calls on one path
ExportGlbWithMeta ==
    \/ \E filepath \in GlbPaths :
        \/ export_glb_with_meta(FALSE, filepath, {})
        \/ export_glb_with_meta(TRUE, filepath, {})
    \/ \E failing \in {f \in Faults(GlbSites) : Reached(f)} :
        export_glb_with_meta(TRUE, <<"ship", ".", "glb">>, failing)

-----------------------------------------------------------------------------
(* operators.py: OBJECT_OT_add_thruster, OBJECT_OT_add_engine *)

\* the host calls of execute() that sit in a try block
AddSites == {"link", "display", "custom1", "custom2", "select_all", "select_set", "set_active"}

\* the selection had the last try block not deselected first
AddSelect_KeepsSelection(new, in_scene, failing) ==
    IF "select_set" \in failing \/ ~in_scene THEN [selected |-> selected, active |-> active]
    ELSE IF "set_active" \in failing THEN [selected |-> selected \cup {new}, active |-> active]
    ELSE [selected |-> selected \cup {new}, active |-> new]

\* the selection after the last try block: a failing call skips the rest of it
\* (the host refuses to select an object that is not in the scene)
AddSelect(new, in_scene, failing) ==
    IF "select_all" \in failing THEN [selected |-> selected, active |-> active]
    ELSE IF "select_set" \in failing \/ ~in_scene THEN [selected |-> {}, active |-> active]
    ELSE IF "set_active" \in failing THEN [selected |-> {new}, active |-> active]
    ELSE [selected |-> {new}, active |-> new]

\* the object as the first three try blocks leave it
CreatedObject(kind, failing) ==
    [NewObject(UniqueName(kind)) EXCEPT
        !.in_scene = "link" \notin failing,
        !.rotation_euler = IF "display" \in failing THEN @ ELSE <<0, -1, 0>>,
        !.is_thruster = kind = "Thruster" /\ "custom1" \notin failing,
        !.is_engine = kind = "Engine" /\ "custom1" \notin failing,
        !.no_export = failing \cap {"custom1", "custom2"} = {}]

\* execute() of add_thruster (kind "Thruster") and add_engine (kind "Engine");
\* failing is the set of host calls that raise
add_object(kind, failing) ==
    LET new == Len(objects) + 1
        obj == CreatedObject(kind, failing)
        sel == AddSelect(new, obj.in_scene, failing)
    IN /\ Len(objects) < MaxObjects
       /\ objects' = Append(objects, obj)
       /\ selected' = sel.selected
       /\ active' = sel.active
       /\ op' = IF kind = "Thruster" THEN "add_thruster" ELSE "add_engine"
       /\ result' = "FINISHED"
       /\ reports' = <<>>
       /\ root' = NoneV
       /\ hostlog' = <<>>
       /\ files' = NoFiles
       /\ pre' = [failing |-> failing, objects |-> Len(objects)]
       /\ arg' = NoneV
       /\ UNCHANGED <<has_tp, has_ep, mode, mesh, host>>

\* OBJECT_PT_thruster_panel.poll and OBJECT_PT_engine_panel.poll (ui.py)
thruster_panel_poll ==
    /\ active # 0
    /\ \/ objects[active].is_thruster
       \/ objects[active].thruster_meta # NoneV
       \/ StartsWith(objects[active].name, "Thruster")

engine_panel_poll ==
    /\ active # 0
    /\ \/ objects[active].is_engine
       \/ objects[active].engine_meta # NoneV
       \/ StartsWith(objects[active].name, "Engine")

\* the calls of the add operators, host calls raising or not
AddObject ==
    \E kind \in {"Thruster", "Engine"}, failing \in Faults(AddSites) :
        add_object(kind, failing)

-----------------------------------------------------------------------------
(* export_thrusters_old, export_engines, bake_thruster_meta and
   bake_engine_meta (operators.py, __init__.py): paths are sequences of
   characters here *)

\* context.selected_objects, in order
RECURSIVE SelectedFrom(_)
SelectedFrom(i) ==
    IF i > Len(objects) THEN <<>>
    ELSE (IF i \in selected THEN <<i>> ELSE <<>>) \o SelectedFrom(i + 1)

SelectedObjects == SelectedFrom(1)

\* the props group an operator of this kind reads
PropsOf(kind, o) == IF kind = "Thruster" THEN thruster_props(o) ELSE engine_props(o)

\* the loop of the export operators: the entries of the selected objects
\* that have the props group and are exportable
RECURSIVE SelectedData(_, _)
SelectedData(kind, sel) ==
    IF sel = <<>> THEN <<>>
    ELSE LET o == objects[Head(sel)]
             kp == PropsOf(kind, o)
         IN (IF kp = NoneV \/ ~kp.exportable THEN <<>>
             ELSE <<IF kind = "Thruster" THEN ThrusterEntry(o) ELSE EngineEntry(o)>>)
            \o SelectedData(kind, Tail(sel))

\* utils.engines_list_to_xml_str
engines_list_to_xml_str(list_of_meta) ==
    [xml |-> AddEngines(Element("Engines", NoneV), list_of_meta),
     indent |-> "  ", newline |-> "\r\n"]

RECURSIVE InitAddThrusters(_, _)
InitAddThrusters(parent, list) ==
    IF list = <<>> THEN parent
    ELSE InitAddThrusters(init_thruster_dict_to_xml_element(parent, Head(list)), Tail(list))

\* thrusters_list_to_xml_str of __init__.py: not indented, no line breaks
init_thrusters_list_to_xml_str(list_of_meta) ==
    [xml |-> InitAddThrusters(Element("Thrusters", NoneV), list_of_meta),
     indent |-> "", newline |-> ""]

\* engines_list_to_xml_str of __init__.py
init_engines_list_to_xml_str(list_of_meta) ==
    [xml |-> AddEngines(Element("Engines", NoneV), list_of_meta),
     indent |-> "", newline |-> ""]

\* str.lower() of one character
Lower(ch) == CASE ch = "J" -> "j" [] ch = "S" -> "s" [] ch = "O" -> "o"
               [] ch = "N" -> "n" [] ch = "X" -> "x" [] OTHER -> ch

\* path.endswith('.json'), letter case as written
EndsWithJson_CaseSensitive(path) ==
    /\ Len(path) >= 5
    /\ SubSeq(path, Len(path) - 4, Len(path)) = <<".", "j", "s", "o", "n">>

\* path.lower().endswith('.json')
EndsWithJson(path) ==
    /\ Len(path) >= 5
    /\ [k \in 1..5 |-> Lower(path[Len(path) - 5 + k])] = <<".", "j", "s", "o", "n">>

\* the path written to
ExportPath(filepath) ==
    IF EndsWithJson(filepath)
    THEN SubSeq(filepath, 1, Len(filepath) - 5) \o <<".", "x", "m", "l">>
    ELSE filepath

\* the calls an export operator makes inside a try block: opening and
\* writing the file, and in __init__.py the print to the console
\* (self.report is taken never to raise)
ExportSites(module) ==
    IF module = "__init__" THEN {"open", "write", "print"} ELSE {"open", "write"}

\* execute() of export_thrusters_old (kind "Thruster") and export_engines
\* (kind "Engine") of the given module; failing is the set of calls that raise
export_selected(kind, module, filepath, failing) ==
    LET data == SelectedData(kind, SelectedObjects)
        xml_text == CASE kind = "Engine" /\ module = "__init__" ->
                            init_engines_list_to_xml_str(data)
                      [] kind = "Engine" /\ module # "__init__" ->
                            engines_list_to_xml_str(data)
                      [] kind = "Thruster" /\ module = "__init__" ->
                            init_thrusters_list_to_xml_str(data)
                      [] OTHER -> thrusters_list_to_xml_str(data)
        path == ExportPath(filepath)
        io == OpenAndWrite(path, "open" \notin failing, <<xml_text>>,
                           IF "write" \in failing THEN 0 ELSE 1)
    IN /\ failing \subseteq ExportSites(module)
       /\ op' = (IF module = "__init__" THEN "__init__." ELSE "")
                    \o (IF kind = "Thruster" THEN "export_thrusters_old" ELSE "export_engines")
       /\ pre' = CallState(TRUE, filepath)
       /\ arg' = NoneV
       /\ root' = xml_text.xml
       /\ UNCHANGED <<objects, has_tp, has_ep, selected, active, mode, mesh, host>>
       /\ IF filepath # <<>>
          THEN /\ hostlog' = io.log
               /\ files' = io.files
               /\ IF io.ok
                  THEN /\ reports' = <<Report("INFO", "Exported", <<Len(data)>>, path)>>
                       /\ result' = "FINISHED"
                  ELSE /\ reports' = <<Report("ERROR", "str(e)", <<>>, <<>>)>>
                       /\ result' = "CANCELLED"
          ELSE /\ hostlog' = <<HostCall("print", <<>>, "print" \notin failing)>>
               /\ files' = NoFiles
               /\ reports' = IF "print" \in failing THEN <<>>
                             ELSE <<Report("INFO", "Prepared export (printed to console)",
                                           <<Len(data)>>, <<>>)>>
               /\ result' = "FINISHED"

\* file paths handed to the export operators
SelPaths ==
    {<<>>,
     <<"a", ".", "j", "s", "o", "n">>,
     <<"a", ".", "J", "S", "O", "N">>,
     <<"a", ".", "J", "s", "o", "n">>,
     <<".", "j", "s", "o", "n">>,
     <<"a", ".", "x", "m", "l">>,
     <<"a", "j", "s", "o", "n">>,
     <<"j", "s", "o", "n">>,
     <<"a", ".", "j", "s", "o", "n", ".", "x">>}

\* the calls of the export operators: every path when no call raises, and
\* the calls raising on an empty and on a '.json' path
ExportSelected ==
    \E kind \in {"Thruster", "Engine"}, module \in {"operators", "__init__"} :
        \/ \E filepath \in SelPaths : export_selected(kind, module, filepath, {})
        \/ \E filepath \in {<<>>, <<"a", ".", "J", "s", "o", "n">>},
              failing \in Faults(ExportSites(module)) \ {{}} :
                export_selected(kind, module, filepath, failing)

\* utils.meta_dict_to_xml_str(meta): the text of a <metadata> element
meta_dict_to_xml_str(meta) == [form |-> "baked", metadata |-> meta]

\* the meta dict of bake_thruster_meta
BakedThruster(o) == GlbEntry(o)

\* the meta dict of bake_engine_meta
BakedEngine(o) ==
    [name |-> o.name,
     thrust_kn |-> o.ep.thrust_kn,
     specific_impulse_seconds |-> o.ep.specific_impulse_seconds,
     minimum_throttle |-> o.ep.minimum_throttle,
     volumetric_exhaust_id |-> o.ep.volumetric_exhaust_id,
     sound_event_action_on |-> o.ep.sound_event_action_on,
     exportable |-> o.ep.exportable,
     location |-> L(o.location)]

\* the body of the loop had it skipped objects that are not exportable
BakeObject_ExportableOnly(kind, i, failing) ==
    LET o == objects[i]
        first == Site("meta", i) \notin failing
        second == first /\ Site("no_export", i) \notin failing
        baked == IF ~first THEN o
                 ELSE IF kind = "Thruster"
                 THEN [o EXCEPT !.thruster_meta = meta_dict_to_xml_str(BakedThruster(o))]
                 ELSE [o EXCEPT !.engine_meta = meta_dict_to_xml_str(BakedEngine(o))]
    IN IF i \notin selected \/ PropsOf(kind, o) = NoneV \/ ~PropsOf(kind, o).exportable
       THEN [obj |-> o, counted |-> FALSE]
       ELSE [obj |-> IF second THEN [baked EXCEPT !.no_export = TRUE] ELSE baked,
             counted |-> second]

\* the body of the loop for object i: failing holds Site("meta", i) when the
\* first assignment raises and Site("no_export", i) when the second does
BakeObject(kind, i, failing) ==
    LET o == objects[i]
        first == Site("meta", i) \notin failing
        second == first /\ Site("no_export", i) \notin failing
        baked == IF ~first THEN o
                 ELSE IF kind = "Thruster"
                 THEN [o EXCEPT !.thruster_meta = meta_dict_to_xml_str(BakedThruster(o))]
                 ELSE [o EXCEPT !.engine_meta = meta_dict_to_xml_str(BakedEngine(o))]
    IN IF i \notin selected \/ PropsOf(kind, o) = NoneV
       THEN [obj |-> o, counted |-> FALSE]
       ELSE [obj |-> IF second THEN [baked EXCEPT !.no_export = TRUE] ELSE baked,
             counted |-> second]

\* the assignments a bake operator makes
BakeSites(kind) ==
    {Site(c, i) : c \in {"meta", "no_export"},
                  i \in {j \in selected : PropsOf(kind, objects[j]) # NoneV}}

\* execute() of bake_thruster_meta (kind "Thruster") and bake_engine_meta
\* (kind "Engine")
bake_meta(kind, failing) ==
    LET done == [i \in 1..Len(objects) |-> BakeObject(kind, i, failing)]
        count == Cardinality({i \in 1..Len(objects) : done[i].counted})
    IN /\ op' = IF kind = "Thruster" THEN "bake_thruster_meta" ELSE "bake_engine_meta"
       /\ objects' = [i \in 1..Len(objects) |-> done[i].obj]
       /\ reports' = <<Report("INFO", "Baked metadata", <<count>>, <<>>)>>
       /\ result' = "FINISHED"
       /\ pre' = [objects |-> objects, failing |-> failing]
       /\ arg' = NoneV
       /\ root' = NoneV
       /\ hostlog' = <<>>
       /\ files' = NoFiles
       /\ UNCHANGED <<has_tp, has_ep, selected, active, mode, mesh, host>>

\* an assignment that raises is the first one, or the second after a first
\* that went through
BakeMeta ==
    \E kind \in {"Thruster", "Engine"} :
        \E failing \in Faults(BakeSites(kind)) :
            /\ \A f \in failing : f.site = "no_export" => Site("meta", f.obj) \notin failing
            /\ bake_meta(kind, failing)

-----------------------------------------------------------------------------
(* place_at_selection (operators.py) *)

VAdd(a, b) == <<a[1] + b[1], a[2] + b[2], a[3] + b[3]>>

VSub(a, b) == <<a[1] - b[1], a[2] - b[2], a[3] - b[3]>>

VNeg(a) == <<-a[1], -a[2], -a[3]>>

VScale(k, a) == <<k * a[1], k * a[2], k * a[3]>>

Dot(a, b) == a[1] * b[1] + a[2] * b[2] + a[3] * b[3]

Abs(x) == IF x < 0 THEN -x ELSE x

\* sum(world_coords, mathutils.Vector())
RECURSIVE VSum(_)
VSum(ps) == IF ps = <<>> THEN <<0, 0, 0>> ELSE VAdd(ps[1], VSum(Tail(ps)))

\* the rotation matrix of the XYZ Euler angles r (quarter turns) applied to
\* v: Rz * Ry * Rx * v
EulerApply(r, v) ==
    LET x == <<v[1],
               Cos(r[1]) * v[2] - Sin(r[1]) * v[3],
               Sin(r[1]) * v[2] + Cos(r[1]) * v[3]>>
        y == <<Cos(r[2]) * x[1] + Sin(r[2]) * x[3],
               x[2],
               Cos(r[2]) * x[3] - Sin(r[2]) * x[1]>>
    IN <<Cos(r[3]) * y[1] - Sin(r[3]) * y[2],
         Sin(r[3]) * y[1] + Cos(r[3]) * y[2],
         y[3]>>

\* obj.matrix_world @ co
matrix_world(o, co) ==
    VAdd(o.parent.offset,
         EulerApply(<<0, 0, o.parent.zturn>>,
                    VAdd(o.location, EulerApply(o.rotation_euler, co))))

\* [v for v in bm.verts if v.select]
RECURSIVE SelectedVerts(_)
SelectedVerts(verts) ==
    IF verts = <<>> THEN <<>>
    ELSE (IF verts[1].select THEN <<verts[1]>> ELSE <<>>) \o SelectedVerts(Tail(verts))

\* [mw @ v.co for v in selected_verts]
WorldCoords(o, verts) ==
    LET sv == SelectedVerts(verts)
    IN [k \in 1..Len(sv) |-> matrix_world(o, sv[k].co)]

\* sum(world_coords, Vector()) / len(world_coords), to the thousandth
Center(world_coords) ==
    LET sum == VSum(world_coords)
        n == Len(world_coords)
    IN <<sum[1] \div n, sum[2] \div n, sum[3] \div n>>

RECURSIVE Gcd(_, _)
Gcd(a, b) == IF b = 0 THEN a ELSE Gcd(b, a % b)

\* the sum the host's polygon normal is the normalisation of: over the
\* edges (prev, cur) of the closed polygon
RECURSIVE NewellSum(_, _)
NewellSum(ps, k) ==
    IF k > Len(ps) THEN <<0, 0, 0>>
    ELSE LET prev == ps[IF k = 1 THEN Len(ps) ELSE k - 1]
             cur == ps[k]
         IN VAdd(<<((prev[2] - cur[2]) \div 1000) * ((prev[3] + cur[3]) \div 1000),
                   ((prev[3] - cur[3]) \div 1000) * ((prev[1] + cur[1]) \div 1000),
                   ((prev[1] - cur[1]) \div 1000) * ((prev[2] + cur[2]) \div 1000)>>,
                 NewellSum(ps, k + 1))

\* mathutils.geometry.normal(world_coords): a unit vector, kept as the
\* shortest integer vector of its direction, or the zero vector when the
\* polygon has no area
geometry_normal(world_coords) ==
    LET s == NewellSum(world_coords, 1)
        g == Gcd(Gcd(Abs(s[1]), Abs(s[2])), Abs(s[3]))
    IN IF g = 0 THEN <<0, 0, 0>> ELSE <<s[1] \div g, s[2] \div g, s[3] \div g>>

\* normal.length_squared < 1e-6, normal being a unit vector or zero
IsDegenerate(normal) == normal = <<0, 0, 0>>

\* avg_deviation > 0.1 were the threshold never exceeded
NotPlanar_Never(world_coords, normal) == FALSE

\* avg_deviation > 0.1, where distances[i] = abs(normal.dot(p - center)) for
\* the unit normal; with n the direction of the normal, N the number of
\* points and T the sum of |n . (N * p - sum(points))| in thousandths, the
\* average is T / (N^2 * |n|), compared here by squares (coordinates are
\* multiples of 0.1)
NotPlanar(world_coords, normal) ==
    LET n == Len(world_coords)
        sum == VSum(world_coords)
        t == LET RECURSIVE Total(_)
                 Total(k) == IF k > n THEN 0
                             ELSE Abs(Dot(normal, VSub(VScale(n, world_coords[k]), sum)))
                                  + Total(k + 1)
             IN Total(1)
        q == t \div 100
    IN q * q > n * n * n * n * Dot(normal, normal)

QuarterTurns == (-1..2) \X (-1..2) \X (-1..2)

Axis(name) == CASE name = "X" -> <<1, 0, 0>>
                [] name = "Y" -> <<0, 1, 0>>
                [] name = "Z" -> <<0, 0, 1>>

\* vec.to_track_quat(track, up).to_euler() for a vec along a world axis: a
\* rotation that turns the object's track axis onto vec and its up axis as
\* far towards world +Z as that leaves possible
TrackEuler(vec, track, up) ==
    LET tracking == {r \in QuarterTurns : EulerApply(r, Axis(track)) = vec}
        height(r) == EulerApply(r, Axis(up))[3]
    IN CHOOSE r \in tracking : \A q \in tracking : height(q) <= height(r)

\* the rotation given to the new object; flip_normal is not read
PlacedRotation(world_coords, flip_normal) ==
    TrackEuler(VNeg(geometry_normal(world_coords)), "Z", "X")

\* poll(): Edit Mode with an active mesh object
PlacePoll == mode = "EDIT_MESH" /\ active # 0 /\ mesh # NoneV

\* what execute() was called on
PlaceState(type, flip_normal, world_coords) ==
    [type |-> type, flip_normal |-> flip_normal, world_coords |-> world_coords,
     object |-> active, objects |-> Len(objects)]

\* execute(); failing is the set of host calls that raise inside the add
\* operator it calls
place_at_selection(type, flip_normal, failing) ==
    LET world_coords == WorldCoords(objects[active], mesh.verts)
        normal == geometry_normal(world_coords)
        kind == IF type = "THRUSTER" THEN "Thruster" ELSE "Engine"
        new == Len(objects) + 1
        created == CreatedObject(kind, failing)
        sel == AddSelect(new, created.in_scene, failing)
        new_obj == sel.active
        placed == [Append(objects, created) EXCEPT
                        ![new_obj].location = Center(world_coords),
                        ![new_obj].rotation_euler = PlacedRotation(world_coords, flip_normal)]
        rejected(msg) ==
            /\ reports' = <<Report("ERROR", msg, <<>>, <<>>)>>
            /\ result' = "CANCELLED"
            /\ UNCHANGED <<objects, selected, active, mode, mesh>>
    IN /\ PlacePoll
       /\ Len(objects) < MaxObjects
       /\ op' = "place_at_selection"
       /\ pre' = PlaceState(type, flip_normal, world_coords)
       /\ arg' = NoneV
       /\ root' = NoneV
       /\ hostlog' = <<>>
       /\ files' = NoFiles
       /\ UNCHANGED <<has_tp, has_ep, host>>
       /\ IF Len(world_coords) < 3
          THEN rejected("Select at least 3 vertices to define a plane/ring.")
          ELSE IF IsDegenerate(normal)
          THEN rejected("Selection is collinear or degenerate; cannot calculate normal.")
          ELSE /\ reports' =
                    (IF NotPlanar(world_coords, normal)
                     THEN <<Report("WARNING", "Selection is not planar", <<>>, <<>>)>>
                     ELSE <<>>)
                    \o <<Report("INFO", "Placed at selection center", <<type>>, <<>>)>>
               /\ result' = "FINISHED"
               /\ mode' = "OBJECT"
               /\ mesh' = NoneV
               /\ objects' = placed
               /\ selected' = sel.selected
               /\ active' = sel.active

\* the calls of place_at_selection: both types, both settings of
\* flip_normal, and the add operator's host calls raising or not
PlaceAtSelection ==
    \E type \in {"THRUSTER", "ENGINE"}, flip_normal \in BOOLEAN,
       failing \in Faults(AddSites) :
        place_at_selection(type, flip_normal, failing)

-----------------------------------------------------------------------------
(* register and unregister (__init__.py) *)

\* the tuple classes, in order
classes ==
    <<"ThrusterProperties", "EngineProperties", "OBJECT_OT_add_thruster",
      "OBJECT_OT_add_engine", "OBJECT_PT_thruster_panel", "OBJECT_PT_engine_panel",
      "OBJECT_OT_export_ksa_metadata", "OBJECT_OT_export_glb_with_meta",
      "VIEW3D_MT_ksa_add">>

ClassSet == {classes[k] : k \in 1..Len(classes)}

\* the host before the add-on is registered
Unregistered == [registered |-> {}, add_menu |-> <<>>, export_menu |-> <<>>]

\* the host after one register() on an untouched host
Registered ==
    [registered |-> ClassSet, add_menu |-> <<"menu_func">>,
     export_menu |-> <<"export_menu_func">>]

\* the host calls of register() that the host may let raise: every call sits
\* in a try block; of the classes, the two property groups and one of the
\* others, which register() treats alike
RegisterSites ==
    {Site("register_class", k) :
        k \in {j \in 1..Len(classes) :
                classes[j] \in {"ThrusterProperties", "EngineProperties",
                                "VIEW3D_MT_ksa_add"}}}
    \cup {Site("pointer_props", 0), Site("menu_append", 0)}

\* Menu.remove(draw_func): list.remove drops the first occurrence, and a
\* function that is not in the list is passed over
RECURSIVE Remove(_, _)
Remove(funcs, f) ==
    IF funcs = <<>> THEN <<>>
    ELSE IF Head(funcs) = f THEN Tail(funcs)
    ELSE <<Head(funcs)>> \o Remove(Tail(funcs), f)

\* the classes registered once register()'s loop is over
RegisteredAfter(failing) ==
    host.registered
    \cup {classes[k] : k \in {j \in 1..Len(classes) :
                                Site("register_class", j) \notin failing}}

\* the host calls register() makes, in order, had the first exception ended
\* the function
RegisterLog_StopsAtFailure(failing) ==
    LET now == RegisteredAfter(failing)
        tp_ok == Site("pointer_props", 0) \notin failing /\ "ThrusterProperties" \in now
        ep_ok == tp_ok /\ "EngineProperties" \in now
        menus_ok == Site("menu_append", 0) \notin failing
        all == [k \in 1..Len(classes) |->
                    HostCall("register_class", <<classes[k]>>,
                             /\ Site("register_class", k) \notin failing
                             /\ classes[k] \notin host.registered)]
               \o <<HostCall("setattr", <<"thruster_props">>, tp_ok)>>
               \o (IF tp_ok THEN <<HostCall("setattr", <<"engine_props">>, ep_ok)>> ELSE <<>>)
               \o <<HostCall("append", <<"VIEW3D_MT_add">>, menus_ok)>>
               \o (IF menus_ok THEN <<HostCall("append", <<"TOPBAR_MT_file_export">>, TRUE)>>
                   ELSE <<>>)
               \o <<HostCall("print", <<>>, TRUE)>>
        bad == {k \in 1..Len(all) : ~all[k].ok}
    IN IF bad = {} THEN all
       ELSE SubSeq(all, 1, CHOOSE k \in bad : \A j \in bad : k <= j)

\* the host calls register() makes, in order: a call that raises ends its
\* own try block and nothing more
RegisterLog(failing) ==
    LET now == RegisteredAfter(failing)
        tp_ok == Site("pointer_props", 0) \notin failing /\ "ThrusterProperties" \in now
        ep_ok == tp_ok /\ "EngineProperties" \in now
        menus_ok == Site("menu_append", 0) \notin failing
    IN [k \in 1..Len(classes) |->
            HostCall("register_class", <<classes[k]>>,
                     /\ Site("register_class", k) \notin failing
                     /\ classes[k] \notin host.registered)]
       \o <<HostCall("setattr", <<"thruster_props">>, tp_ok)>>
       \o (IF tp_ok THEN <<HostCall("setattr", <<"engine_props">>, ep_ok)>> ELSE <<>>)
       \o <<HostCall("append", <<"VIEW3D_MT_add">>, menus_ok)>>
       \o (IF menus_ok THEN <<HostCall("append", <<"TOPBAR_MT_file_export">>, TRUE)>>
           ELSE <<>>)
       \o <<HostCall("print", <<>>, TRUE)>>

\* the host calls unregister() makes, in order
UnregisterLog ==
    <<HostCall("remove", <<"VIEW3D_MT_add">>, TRUE),
      HostCall("remove", <<"TOPBAR_MT_file_export">>, TRUE),
      HostCall("delattr", <<"thruster_props">>, has_tp)>>
    \o (IF has_tp THEN <<HostCall("delattr", <<"engine_props">>, has_ep)>> ELSE <<>>)
    \o [k \in 1..Len(classes) |->
            HostCall("unregister_class", <<classes[Len(classes) + 1 - k]>>,
                     classes[Len(classes) + 1 - k] \in host.registered)]
    \o <<HostCall("print", <<>>, TRUE)>>

\* register(): bpy.utils.register_class raises for a class that is
\* registered already, PointerProperty for a type that is not registered;
\* failing holds the calls the host lets raise besides
register(failing) ==
    LET now == RegisteredAfter(failing)
        props_ok == Site("pointer_props", 0) \notin failing
        tp_ok == props_ok /\ "ThrusterProperties" \in now
        ep_ok == tp_ok /\ "EngineProperties" \in now
        menus_ok == Site("menu_append", 0) \notin failing
    IN /\ Len(host.add_menu) < MaxRegistrations
       /\ host' = [registered |-> now,
                   add_menu |-> IF menus_ok THEN Append(host.add_menu, "menu_func")
                                ELSE host.add_menu,
                   export_menu |-> IF menus_ok
                                   THEN Append(host.export_menu, "export_menu_func")
                                   ELSE host.export_menu]
       /\ has_tp' = (has_tp \/ tp_ok)
       /\ has_ep' = (has_ep \/ ep_ok)
       /\ op' = "register"
       /\ pre' = [failing |-> failing, host |-> host]
       /\ result' = "none"
       /\ reports' = <<>>
       /\ root' = NoneV
       /\ hostlog' = RegisterLog(failing)
       /\ files' = NoFiles
       /\ arg' = NoneV
       /\ UNCHANGED <<objects, selected, active, mode, mesh>>

\* unregister(): del of an attribute that is not there raises and skips the
\* second del; unregister_class raises for a class that is not registered
unregister ==
    /\ host' = [registered |-> {},
                add_menu |-> Remove(host.add_menu, "menu_func"),
                export_menu |-> Remove(host.export_menu, "export_menu_func")]
    /\ has_tp' = FALSE
    /\ has_ep' = (IF has_tp THEN FALSE ELSE has_ep)
    /\ op' = "unregister"
    /\ pre' = [failing |-> {}, host |-> host]
    /\ result' = "none"
    /\ reports' = <<>>
    /\ root' = NoneV
    /\ hostlog' = UnregisterLog
    /\ files' = NoFiles
    /\ arg' = NoneV
    /\ UNCHANGED <<objects, selected, active, mode, mesh>>

Register == \E failing \in Faults(RegisterSites) : register(failing)

-----------------------------------------------------------------------------
(* Scenes *)

\* no call has run yet
Idle ==
    /\ mode = "OBJECT"
    /\ mesh = NoneV
    /\ host = Registered
    /\ op = "none"
    /\ result = "none"
    /\ reports = <<>>
    /\ root = NoneV
    /\ hostlog = <<>>
    /\ files = NoFiles
    /\ pre = NoneV
    /\ arg = NoneV

\* how an object is marked: <<first token of its name, custom property>>
Markings ==
    {<<"Thruster", "none">>, <<"Engine", "none">>, <<"Cube", "none">>,
     <<"Cube", "thruster">>, <<"Cube", "engine">>, <<"Thruster", "engine">>}

\* objects that differ in how they are marked and in their exportable flags;
\* a flag is switched off only on an object marked for that kind
MarkedObjects(i) ==
    { [NewObject(NameOf(m[1], i)) EXCEPT
            !.in_scene = TRUE, !.is_thruster = m[2] = "thruster",
            !.is_engine = m[2] = "engine",
            !.tp.exportable = ex[1], !.ep.exportable = ex[2]] :
        <<m, ex>> \in
            {x \in Markings \X {<<TRUE, TRUE>>, <<TRUE, FALSE>>, <<FALSE, TRUE>>} :
                /\ ~x[2][1] => (x[1][1] = "Thruster" \/ x[1][2] = "thruster")
                /\ ~x[2][2] => (x[1][1] = "Engine" \/ x[1][2] = "engine")} }

RECURSIVE MarkedScenes(_)
MarkedScenes(n) ==
    IF n = 0 THEN {<<>>}
    ELSE LET shorter == MarkedScenes(n - 1)
         IN shorter \cup {Append(s, x) : s \in {t \in shorter : Len(t) = n - 1},
                                          x \in MarkedObjects(n)}

Init ==
    /\ objects \in MarkedScenes(MaxObjects)
    /\ has_tp \in BOOLEAN
    /\ has_ep \in BOOLEAN
    /\ selected \in {{}, 1..Len(objects)}
    /\ active = (IF selected = {} THEN 0 ELSE Len(objects))
    /\ Idle

Next == ExportKsaMetadata

Spec == Init /\ [][Next]_vars

-----------------------------------------------------------------------------
(* Scenes of one object whose placement and thrust vary *)

Coords == {Fl(c) : c \in 0..MaxCoord}

Turns == -1..2

Parents ==
    {NoParent,
     [offset |-> <<Fl(2), Fl(0), Fl(0)>>, zturn |-> 0],
     [offset |-> <<Fl(0), Fl(0), Fl(0)>>, zturn |-> 1]}

FxOffsets == {<<Fl(0), Fl(0), Fl(0)>>, <<500, Fl(0), Fl(-1)>>}

PlacedObjects(base) ==
    LET o == [NewObject(NameOf(base, 1)) EXCEPT !.in_scene = TRUE]
    IN {[o EXCEPT !.location = loc, !.parent = par, !.tp.fx_location = L(fx)] :
            loc \in Coords \X Coords \X Coords, par \in Parents, fx \in FxOffsets}
       \cup {[o EXCEPT !.rotation_euler = rot] : rot \in Turns \X Turns \X Turns}
       \cup {[o EXCEPT !.tp.thrust_n = n, !.ep.thrust_kn = kn] :
                n \in {Fl(0), 500, Fl(220)}, kn \in {Fl(0), 500, Fl(2)}}

InitGeom ==
    /\ objects \in {<<>>} \cup {<<o>> : o \in PlacedObjects("Thruster") \cup PlacedObjects("Engine")}
    /\ has_tp = TRUE
    /\ has_ep = TRUE
    /\ selected = {}
    /\ active = 0
    /\ Idle

\* the add operators when every host call succeeds
AddThrusterOk == add_object("Thruster", {})

AddEngineOk == add_object("Engine", {})

\* an export that goes through
ExportKsaOk == export_ksa_metadata(TRUE, <<"ksa_metadata", ".", "xml">>, TRUE, 2)

NextGeom == AddThrusterOk \/ AddEngineOk \/ ExportKsaOk

SpecGeom == InitGeom /\ [][NextGeom]_vars

-----------------------------------------------------------------------------
(* The serializers called on their own, on dicts with keys left out *)

\* a key that is not in the dict
Absent == [absent |-> TRUE]

EmptyDict == [k \in {} |-> NoneV]

\* the dict {key: v}, or {} when v is Absent
Key(key, v) == IF v = Absent THEN EmptyDict ELSE key :> v

\* boolean sequences of length n
RECURSIVE BoolSeqs(_)
BoolSeqs(n) ==
    IF n = 0 THEN {<<>>}
    ELSE {Append(s, b) : s \in BoolSeqs(n - 1), b \in BOOLEAN}

\* control maps: absent, None and every list of at most MaxFlags flags
MapValues ==
    {Absent, NoneV} \cup UNION {{L(s) : s \in BoolSeqs(n)} : n \in 0..MaxFlags}

\* a few control maps to pair with every map of the other kind
FewMaps ==
    {Absent,
     NoFlags,
     L(<<TRUE, FALSE, TRUE, FALSE, FALSE, TRUE>>),
     L([k \in 1..MaxFlags |-> TRUE])}

MapDicts ==
    {Key("control_map_translation", m[1]) @@ Key("control_map_rotation", m[2]) :
        m \in (MapValues \X FewMaps) \cup (FewMaps \X MapValues)}

PlacementDicts ==
    {nm @@ Key("location", loc) @@ Key("fx_location", fx) @@ Key("rotation", rot) :
        nm \in {EmptyDict, "name" :> <<"Thruster">>},
        loc \in {Absent, NoneV, L(<<>>), L(<<Fl(1), Fl(0), Fl(MaxCoord)>>)},
        fx \in {Absent, NoneV, L(<<500, Fl(0), Fl(-1)>>)},
        rot \in {Absent, NoneV, L(<<>>), L(<<0, 0, 0>>), L(<<0, -1, 0>>), L(<<1, 0, 1>>)}}

InitDict ==
    /\ arg \in MapDicts \cup PlacementDicts
    /\ root = Element("Thrusters", NoneV)
    /\ mode = "OBJECT"
    /\ mesh = NoneV
    /\ host = Registered
    /\ objects = <<>>
    /\ has_tp = TRUE
    /\ has_ep = TRUE
    /\ selected = {}
    /\ active = 0
    /\ op = "none"
    /\ result = "none"
    /\ reports = <<>>
    /\ hostlog = <<>>
    /\ files = NoFiles
    /\ pre = NoneV

\* one call serializer(root, arg)
Serialize(name, tree) ==
    /\ Len(root.children) < MaxCalls
    /\ root' = tree
    /\ op' = name
    /\ UNCHANGED <<objects, has_tp, has_ep, selected, active, files, result,
                   reports, hostlog, pre, arg, mode, mesh, host>>

ThrusterDictToXml ==
    Serialize("utils._thruster_dict_to_xml_element",
              thruster_dict_to_xml_element(root, arg))

InitThrusterDictToXml ==
    Serialize("__init__._thruster_dict_to_xml_element",
              init_thruster_dict_to_xml_element(root, arg))

EngineDictToXml ==
    Serialize("_engine_dict_to_xml_element", engine_dict_to_xml_element(root, arg))

NextDict == ThrusterDictToXml \/ InitThrusterDictToXml \/ EngineDictToXml

SpecDict == InitDict /\ [][NextDict]_vars

-----------------------------------------------------------------------------
(* Scenes of plain objects and of objects that carry _thruster_meta *)

\* the first object may also carry a JSON object or a JSON array
MetaObjects(i) ==
    {[NewObject(NameOf("Cube", i)) EXCEPT !.in_scene = TRUE, !.thruster_meta = meta] :
        meta \in {NoneV} \cup {MetaString(f) : f \in
                    {"baked", "json_number_name"}
                    \cup (IF i = 1 THEN {"json_dict", "json_list"} ELSE {})}}

RECURSIVE MetaScenes(_)
MetaScenes(n) ==
    IF n = 0 THEN {<<>>}
    ELSE LET shorter == MetaScenes(n - 1)
         IN shorter \cup {Append(s, x) : s \in {t \in shorter : Len(t) = n - 1},
                                          x \in MetaObjects(n)}

InitGlb ==
    /\ objects \in MetaScenes(MaxObjects)
    /\ has_tp \in BOOLEAN
    /\ has_ep = has_tp
    /\ selected \in SUBSET (1..Len(objects))
    /\ active \in 0..Len(objects)
    /\ Idle

\* one call per behaviour: the scene is left as it is and every selection a
\* call can leave behind is an initial state, so a second call meets nothing new
NextGlb == op = "none" /\ ExportGlbWithMeta

SpecGlb == InitGlb /\ [][NextGlb]_vars

-----------------------------------------------------------------------------
(* Edit Mode scenes for place_at_selection *)

Vert(x, y, z, select) == [co |-> <<Fl(x), Fl(y), Fl(z)>>, select |-> select]

\* the selections: too few vertices, collinear and coincident ones, planar
\* triangles and quads of both windings in the three coordinate planes, a
\* saddle that is not planar, some among unselected vertices; every normal
\* lies along an axis
Selections ==
    {<<>>,
     <<Vert(0, 0, 0, TRUE), Vert(3, 0, 0, TRUE), Vert(0, 3, 0, FALSE)>>,
     <<Vert(0, 0, 0, TRUE), Vert(1, 0, 0, TRUE), Vert(2, 0, 0, TRUE)>>,
     <<Vert(1, 1, 1, TRUE), Vert(1, 1, 1, TRUE), Vert(1, 1, 1, TRUE), Vert(0, 0, 0, FALSE)>>,
     <<Vert(0, 0, 0, TRUE), Vert(3, 0, 0, TRUE), Vert(0, 3, 0, TRUE)>>,
     <<Vert(0, 0, 0, TRUE), Vert(0, 3, 0, TRUE), Vert(3, 0, 0, TRUE), Vert(0, 0, 3, FALSE)>>,
     <<Vert(0, 0, 0, TRUE), Vert(3, 0, 0, TRUE), Vert(0, 0, 3, TRUE)>>,
     <<Vert(0, 0, 1, TRUE), Vert(2, 0, 1, TRUE), Vert(1, 1, 1, FALSE),
       Vert(2, 2, 1, TRUE), Vert(0, 2, 1, TRUE)>>,
     <<Vert(0, 0, 1, TRUE), Vert(2, 0, -1, TRUE), Vert(2, 2, 1, TRUE), Vert(0, 2, -1, TRUE)>>,
     <<Vert(0, 0, 0, TRUE), Vert(0, 2, 0, TRUE), Vert(0, 2, 2, TRUE), Vert(0, 0, 2, TRUE)>>}

\* the mesh objects being edited: at the origin, moved, turned, parented
MeshObjects ==
    LET o == [NewObject(NameOf("Cube", 1)) EXCEPT !.in_scene = TRUE]
    IN {[o EXCEPT !.location = loc, !.rotation_euler = rot] :
            loc \in {<<Fl(0), Fl(0), Fl(0)>>, <<Fl(1), Fl(0), Fl(-2)>>},
            rot \in {<<0, 0, 0>>, <<1, 0, 0>>, <<0, 0, 1>>}}
       \cup {[o EXCEPT !.parent = par] : par \in Parents}

InitPlace ==
    /\ objects \in {<<o>> : o \in MeshObjects}
    /\ has_tp = TRUE
    /\ has_ep = TRUE
    /\ selected = {1}
    /\ active = 1
    /\ mode = "EDIT_MESH"
    /\ mesh \in {[verts |-> vs] : vs \in Selections}
    /\ host = Registered
    /\ op = "none"
    /\ result = "none"
    /\ reports = <<>>
    /\ root = NoneV
    /\ hostlog = <<>>
    /\ files = NoFiles
    /\ pre = NoneV
    /\ arg = NoneV

NextPlace == PlaceAtSelection

SpecPlace == InitPlace /\ [][NextPlace]_vars

-----------------------------------------------------------------------------
(* Scenes with a selection, for the operators that work on selected objects *)

\* a plain object, and objects as the add operators leave them, edited or not
SelObjects(i) ==
    LET t == [NewObject(NameOf("Thruster", i)) EXCEPT
                    !.in_scene = TRUE, !.is_thruster = TRUE, !.no_export = TRUE]
        e == [NewObject(NameOf("Engine", i)) EXCEPT
                    !.in_scene = TRUE, !.is_engine = TRUE, !.no_export = TRUE]
    IN {[NewObject(NameOf("Cube", i)) EXCEPT !.in_scene = TRUE],
        [t EXCEPT !.tp.exportable = FALSE, !.ep.exportable = FALSE],
        [e EXCEPT !.ep.thrust_kn = Fl(2), !.location = <<Fl(1), Fl(0), Fl(0)>>]}

RECURSIVE SelScenes(_)
SelScenes(n) ==
    IF n = 0 THEN {<<>>}
    ELSE LET shorter == SelScenes(n - 1)
         IN shorter \cup {Append(sc, x) : sc \in {t \in shorter : Len(t) = n - 1},
                                           x \in SelObjects(n)}

InitSel ==
    /\ objects \in SelScenes(MaxObjects)
    /\ has_tp \in BOOLEAN
    /\ has_ep = has_tp
    /\ selected \in SUBSET (1..Len(objects))
    /\ active = 0
    /\ Idle

\* one export per behaviour, on the initial scene: an export changes nothing
\* and reads nothing a bake operator writes; the bake operators run one
\* after another
NextSel ==
    \/ op = "none" /\ ExportSelected
    \/ op \in {"none", "bake_thruster_meta", "bake_engine_meta"} /\ BakeMeta

SpecSel == InitSel /\ [][NextSel]_vars

\* the add operators on scenes with a selection and an active object or none
InitAdd ==
    /\ objects \in SelScenes(MaxObjects)
    /\ has_tp = TRUE
    /\ has_ep = TRUE
    /\ selected \in SUBSET (1..Len(objects))
    /\ active \in 0..Len(objects)
    /\ Idle

\* an add operator, host calls raising or not, or an export that goes through
NextAdd == AddObject \/ export_ksa_metadata(TRUE, <<"ksa_metadata", ".", "xml">>, TRUE, 2)

SpecAdd == InitAdd /\ [][NextAdd]_vars

-----------------------------------------------------------------------------
(* The add-on's life cycle on a host that starts without it *)

InitReg ==
    /\ objects = <<>>
    /\ has_tp = FALSE
    /\ has_ep = FALSE
    /\ selected = {}
    /\ active = 0
    /\ mode = "OBJECT"
    /\ mesh = NoneV
    /\ host = Unregistered
    /\ op = "none"
    /\ result = "none"
    /\ reports = <<>>
    /\ root = NoneV
    /\ hostlog = <<>>
    /\ files = NoFiles
    /\ pre = NoneV
    /\ arg = NoneV

NextReg == Register \/ unregister

SpecReg == InitReg /\ [][NextReg]_vars

-----------------------------------------------------------------------------
(* Claims *)

\* the children of the last root with the given tag and Id
ChildrenOf(tag, id) ==
    {k \in 1..Len(root.children) :
        root.children[k].tag = tag /\ root.children[k].attrib.Id = id}

KsaRan == op = "export_ksa_metadata" /\ root # NoneV

InScene(i) == i \in 1..Len(objects) /\ objects[i].in_scene

\* C1: after export_ksa_metadata the KSAMetadata root holds exactly one
\* Thruster element for each scene object that is marked as a thruster (custom
\* property _is_thruster or a name beginning with 'Thruster') and whose
\* thruster_props.exportable is true, exactly one Engine element for each
\* scene object marked as an engine whose engine_props.exportable is true,
\* and nothing else.
C1_ExportsAllThrustersAndEngines ==
    KsaRan =>
        /\ \A i \in 1..Len(objects) :
            LET o == objects[i]
                wanted_t == /\ o.in_scene
                            /\ o.is_thruster \/ o.name[1] = "Thruster"
                            /\ has_tp /\ o.tp.exportable
                wanted_e == /\ o.in_scene
                            /\ o.is_engine \/ o.name[1] = "Engine"
                            /\ has_ep /\ o.ep.exportable
            IN /\ Cardinality(ChildrenOf("Thruster", o.name)) = IF wanted_t THEN 1 ELSE 0
               /\ Cardinality(ChildrenOf("Engine", o.name)) = IF wanted_e THEN 1 ELSE 0
        /\ \A k \in 1..Len(root.children) :
            /\ root.children[k].tag \in {"Thruster", "Engine"}
            /\ \E i \in 1..Len(objects) : root.children[k].attrib.Id = objects[i].name

\* C1 witness: an export that wrote a thruster and an engine and left out an
\* object marked as a thruster whose exportable flag is off
C1_Witness ==
    /\ KsaRan
    /\ \E k \in 1..Len(root.children) : root.children[k].tag = "Thruster"
    /\ \E k \in 1..Len(root.children) : root.children[k].tag = "Engine"
    /\ \E i \in 1..Len(objects) :
        /\ objects[i].is_thruster /\ has_tp /\ ~objects[i].tp.exportable
        /\ ChildrenOf("Thruster", objects[i].name) = {}

\* the children of the last root with the given tag
Tagged(tag) == {k \in 1..Len(root.children) : root.children[k].tag = tag}

HostFailed == \E k \in 1..Len(hostlog) : ~hostlog[k].ok

Opens == {k \in 1..Len(hostlog) : hostlog[k].call = "open"}

\* C7: export_ksa_metadata.execute ends in exactly one of three outcomes:
\* without a scene an ERROR report, no file and CANCELLED; when opening or
\* writing the file fails (an empty filepath included) an ERROR report and
\* CANCELLED; otherwise the file is written once, an INFO report carries the
\* numbers of thrusters and engines written, and the result is FINISHED.
C7_KsaOutcomes ==
    op = "export_ksa_metadata" =>
        /\ Len(reports) = 1
        /\ IF ~pre.scene
           THEN /\ reports[1].level = "ERROR"
                /\ result = "CANCELLED"
                /\ Opens = {}
                /\ files = NoFiles
           ELSE IF HostFailed \/ pre.filepath = <<>>
           THEN /\ reports[1].level = "ERROR"
                /\ result = "CANCELLED"
           ELSE /\ reports[1].level = "INFO"
                /\ reports[1].counts =
                        <<Cardinality(Tagged("Thruster")), Cardinality(Tagged("Engine"))>>
                /\ result = "FINISHED"
                /\ Cardinality(Opens) = 1
                /\ DOMAIN files = {pre.filepath}
                /\ files[pre.filepath] = <<"\n", tostring(root)>>

\* C7 witness: a successful export of one thruster and one engine
C7_Witness ==
    /\ op = "export_ksa_metadata"
    /\ result = "FINISHED"
    /\ reports[1].level = "INFO"
    /\ reports[1].counts = <<1, 1>>
    /\ DOMAIN files = {<<"ksa_metadata", ".", "xml">>}

\* the child of element el with the given tag, or NoneV
Child(el, tag) ==
    LET ks == {k \in 1..Len(el.children) : el.children[k].tag = tag}
    IN IF ks = {} THEN NoneV ELSE el.children[CHOOSE k \in ks : TRUE]

\* the host's matrix_world translation: the parent's transform applied to
\* the object's own location
WorldPosition(o) ==
    LET c == Cos(o.parent.zturn)
        sn == Sin(o.parent.zturn)
    IN << o.parent.offset[1] + c * o.location[1] - sn * o.location[2],
          o.parent.offset[2] + sn * o.location[1] + c * o.location[2],
          o.parent.offset[3] + o.location[3] >>

\* the object's local +X axis in world space under its XYZ Euler rotation:
\* the first column of Rz * Ry * Rx
LocalXWorld(r) ==
    << Fl(Cos(r[2]) * Cos(r[3])), Fl(Cos(r[2]) * Sin(r[3])), Fl(-Sin(r[2])) >>

\* C2: the Location of every exported thruster is the object's world position
\* plus its fx_location, and the Location of every exported engine is the
\* object's world position, parented objects included.
C2_LocationIsWorldPosition ==
    KsaRan =>
        \A i \in 1..Len(objects) :
            LET o == objects[i]
                w == WorldPosition(o)
                fx == o.tp.fx_location.list
            IN /\ \A k \in ChildrenOf("Thruster", o.name) :
                    Child(root.children[k], "Location") =
                        XYZ("Location", <<w[1] + fx[1], w[2] + fx[2], w[3] + fx[3]>>)
               /\ \A k \in ChildrenOf("Engine", o.name) :
                    Child(root.children[k], "Location") = XYZ("Location", w)

\* C3: the ExhaustDirection of every exported thruster and engine is the
\* object's local +X axis carried into world space by its XYZ Euler rotation
\* (angles in quarter turns), freshly added objects included.
C3_ExhaustDirectionIsLocalX ==
    KsaRan =>
        \A i \in 1..Len(objects) :
            \A k \in ChildrenOf("Thruster", objects[i].name)
                     \cup ChildrenOf("Engine", objects[i].name) :
                Child(root.children[k], "ExhaustDirection") =
                    XYZ("ExhaustDirection", LocalXWorld(objects[i].rotation_euler))

\* C6: the Thrust of an exported engine carries N = thrust_kn * 1000 and the
\* Thrust of an exported thruster carries thrust_n unchanged.
C6_ThrustUnits ==
    KsaRan =>
        \A i \in 1..Len(objects) :
            /\ \A k \in ChildrenOf("Engine", objects[i].name) :
                Child(root.children[k], "Thrust").attrib.N =
                    PyStr(objects[i].ep.thrust_kn * 1000)
            /\ \A k \in ChildrenOf("Thruster", objects[i].name) :
                Child(root.children[k], "Thrust").attrib.N = PyStr(objects[i].tp.thrust_n)

\* C6 witness: an engine of 650 kN exported as 650000.0 N next to a thruster
\* of 0.5 N exported as 0.5
C6_Witness ==
    /\ KsaRan
    /\ \E k \in Tagged("Engine") : Child(root.children[k], "Thrust").attrib.N = "650000.0"
    /\ \E i \in 1..Len(objects) :
        /\ objects[i].tp.thrust_n = 500
        /\ \E k \in ChildrenOf("Thruster", objects[i].name) :
            Child(root.children[k], "Thrust").attrib.N = "0.5"

\* a serializer ran last and appended LastChild
SerializerRan ==
    op \in {"utils._thruster_dict_to_xml_element",
            "__init__._thruster_dict_to_xml_element",
            "_engine_dict_to_xml_element"}

LastChild == root.children[Len(root.children)]

\* C4: a dict without a rotation (key absent, None or empty) gets the default
\* forward direction X=1.0, Y=0.0, Z=0.0 as its ExhaustDirection.
C4_NoRotationGivesForward ==
    (SerializerRan /\ Get(arg, "rotation", NoneV) \in {NoneV, L(<<>>)}) =>
        Child(LastChild, "ExhaustDirection") =
            Element("ExhaustDirection", [X |-> "1.0", Y |-> "0.0", Z |-> "0.0"])

\* the labels of the flags that are set among the first Len(labels), in
\* index order
RECURSIVE Ascending(_, _)
Ascending(on, labels) ==
    IF on = {} THEN <<>>
    ELSE LET i == CHOOSE i \in on : \A j \in on : i <= j
         IN <<labels[i]>> \o Ascending(on \ {i}, labels)

EnabledLabels(map, labels) ==
    IF ~IsList(map) THEN <<>>
    ELSE Ascending({i \in 1..Len(labels) : i <= Len(map.list) /\ map.list[i]}, labels)

\* C5: every Thruster element has exactly one ControlMap child; its CSV lists
\* the labels of the enabled translation flags in index order followed by the
\* labels of the enabled rotation flags in index order, joined by commas (the
\* empty string when none is set), and flags at index 6 or higher are ignored.
C5_ControlMapCsv ==
    (SerializerRan /\ LastChild.tag = "Thruster") =>
        /\ Cardinality({k \in 1..Len(LastChild.children) :
                            LastChild.children[k].tag = "ControlMap"}) = 1
        /\ Child(LastChild, "ControlMap").attrib.CSV =
                Join(EnabledLabels(Get(arg, "control_map_translation", NoneV), trans_labels)
                     \o EnabledLabels(Get(arg, "control_map_rotation", NoneV), rot_labels))

\* C5 witness: translation flags 1, 3 and 7 and rotation flags 1, 3 and 6
\* set: the seventh flag is dropped and translation comes first
C5_Witness ==
    /\ SerializerRan /\ LastChild.tag = "Thruster"
    /\ Get(arg, "control_map_translation", NoneV) =
            L(<<TRUE, FALSE, TRUE, FALSE, FALSE, FALSE, TRUE>>)
    /\ Child(LastChild, "ControlMap").attrib.CSV =
            "TranslateForward,TranslateLeft,PitchUp,RollLeft,YawRight"

GlbRan == op = "export_glb_with_meta" /\ pre.scene

GltfCalls == {k \in 1..Len(hostlog) : hostlog[k].call = "gltf"}

\* C8: when export_glb_with_meta invokes the glTF exporter, the selection
\* holds no scene object that has a _thruster_meta custom property or a
\* thruster_props group, and holds every other scene object.
C8_GlbSelectionExcludesThrusters ==
    GlbRan =>
        \A k \in GltfCalls :
            \A i \in 1..Len(objects) :
                objects[i].in_scene =>
                    (i \in hostlog[k].selection <=>
                        ~(objects[i].thruster_meta # NoneV \/ has_tp))

\* C9: export_glb_with_meta leaves the set of selected objects and the
\* active object as they were before the call, whatever its result, also
\* when no object was active before.
C9_GlbRestoresSelection ==
    [][op' = "export_glb_with_meta" => (selected' = selected /\ active' = active)]_vars

\* the positions in hostlog of the calls that write the metadata file
MetaFileCalls == {k \in 1..Len(hostlog) : hostlog[k].call \in {"open", "write"}}

\* C10: export_glb_with_meta invokes the glTF exporter before it writes the
\* metadata file (the GLB path with its extension replaced by '_meta.xml');
\* when the exporter raises, an ERROR is reported, the result is CANCELLED and
\* no metadata file is written; when the exporter succeeds and building or
\* writing the metadata file fails, a WARNING is reported and the result is
\* FINISHED.
C10_GlbBeforeMeta ==
    GlbRan =>
        /\ Cardinality(GltfCalls) = 1
        /\ \A g \in GltfCalls : \A k \in MetaFileCalls : g < k
        /\ \A k \in MetaFileCalls :
            hostlog[k].path = IF pre.filepath = <<"ship", ".", "glb">>
                              THEN <<"ship", "_meta.xml">>
                              ELSE pre.filepath \o <<"_meta.xml">>
        /\ DOMAIN files \subseteq {hostlog[k].path : k \in MetaFileCalls}
        /\ Len(reports) = 1
        /\ IF \E g \in GltfCalls : ~hostlog[g].ok
           THEN /\ reports[1].level = "ERROR"
                /\ result = "CANCELLED"
                /\ MetaFileCalls = {}
                /\ files = NoFiles
           ELSE IF HostFailed
           THEN /\ reports[1].level = "WARNING"
                /\ result = "FINISHED"
           ELSE /\ reports[1].level = "INFO"
                /\ result = "FINISHED"
                /\ DOMAIN files # {}

\* C10 witness: the exporter returned and the metadata file could not be
\* opened
C10_Witness ==
    /\ GlbRan
    /\ result = "FINISHED"
    /\ reports[1].level = "WARNING"
    /\ \E g \in GltfCalls : hostlog[g].ok
    /\ \E k \in MetaFileCalls : hostlog[k].call = "open" /\ ~hostlog[k].ok

PlaceRan == op = "place_at_selection"

\* the objects the last place_at_selection created
PlaceCreated == (pre.objects + 1)..Len(objects)

\* C11: the axis place_at_selection aligns (local Z of the object it
\* orients, the active object after the call) points, for either setting of
\* flip_normal, opposite to where the other setting points it for the same
\* selection.
C11_FlipNormalInverts ==
    (PlaceRan /\ result = "FINISHED") =>
        EulerApply(objects[active].rotation_euler, Axis("Z")) =
            VNeg(EulerApply(PlacedRotation(pre.world_coords, ~pre.flip_normal), Axis("Z")))

\* the selection is rejected: fewer than three vertices, or no normal
PlaceInvalid ==
    \/ Len(pre.world_coords) < 3
    \/ geometry_normal(pre.world_coords) = <<0, 0, 0>>

\* the vertices that lie further than d (in thousandths, times the length of
\* the normal's direction vector) from the plane through the centre
OffPlane(ps, d) ==
    {k \in 1..Len(ps) :
        Abs(Dot(geometry_normal(ps), VSub(VScale(Len(ps), ps[k]), VSum(ps)))) > Len(ps) * d}

\* C12: place_at_selection rejects fewer than three selected vertices and a
\* collinear or degenerate selection with one ERROR report and CANCELLED,
\* creates no object and stays in Edit Mode; a selection that is only not
\* planar gets a WARNING and the placement ends FINISHED: no WARNING when
\* every vertex lies in the plane, one when every vertex is more than 0.1 off.
C12_PlaceRejectsInvalid ==
    PlaceRan =>
        /\ PlaceInvalid =>
                /\ result = "CANCELLED"
                /\ Len(reports) = 1 /\ reports[1].level = "ERROR"
                /\ Len(objects) = pre.objects
                /\ mode = "EDIT_MESH"
        /\ ~PlaceInvalid =>
                /\ result = "FINISHED"
                /\ \A k \in 1..Len(reports) : reports[k].level # "ERROR"
                /\ OffPlane(pre.world_coords, Fl(0)) = {}
                        => \A k \in 1..Len(reports) : reports[k].level # "WARNING"
                /\ /\ Dot(geometry_normal(pre.world_coords),
                           geometry_normal(pre.world_coords)) = 1
                   /\ OffPlane(pre.world_coords, 100) = 1..Len(pre.world_coords)
                        => \E k \in 1..Len(reports) : reports[k].level = "WARNING"

\* C12 witness: a saddle of four vertices, not planar, was placed on with a
\* WARNING
C12_Witness ==
    /\ PlaceRan /\ result = "FINISHED"
    /\ Len(pre.world_coords) = 4
    /\ reports[1].level = "WARNING"
    /\ Len(objects) = pre.objects + 1

\* C12 witness of the rejection: three collinear vertices
C12_WitnessCollinear ==
    /\ PlaceRan /\ result = "CANCELLED"
    /\ Len(pre.world_coords) = 3
    /\ mode = "EDIT_MESH"

\* C13: on a valid selection place_at_selection switches to Object Mode,
\* creates exactly one object of the requested type, puts that object at the
\* average of the selected vertices' world coordinates and returns FINISHED.
C13_PlacesNewObjectAtCenter ==
    (PlaceRan /\ ~PlaceInvalid) =>
        /\ result = "FINISHED"
        /\ mode = "OBJECT"
        /\ Len(objects) = pre.objects + 1
        /\ \A i \in PlaceCreated :
            /\ objects[i].name[1] = (IF pre.type = "THRUSTER" THEN "Thruster" ELSE "Engine")
            /\ LET sum == VSum(pre.world_coords)
                   n == Len(pre.world_coords)
               IN VScale(n, objects[i].location) = sum

ExportSelectedRan ==
    op \in {"export_thrusters_old", "export_engines",
            "__init__.export_thrusters_old", "__init__.export_engines"}

FileCalls == {k \in 1..Len(hostlog) : hostlog[k].call \in {"open", "write"}}

\* C14: with an empty filepath export_engines and export_thrusters_old print
\* to the console, open and write no file, make an INFO report and return
\* FINISHED; with a filepath, when opening or writing fails they report an
\* ERROR and return CANCELLED.
C14_ExportSelectedOutcomes ==
    ExportSelectedRan =>
        /\ pre.filepath = <<>> =>
                /\ \E k \in 1..Len(hostlog) : hostlog[k].call = "print"
                /\ FileCalls = {}
                /\ files = NoFiles
                /\ Len(reports) = 1 /\ reports[1].level = "INFO"
                /\ result = "FINISHED"
        /\ (pre.filepath # <<>> /\ \E k \in FileCalls : ~hostlog[k].ok) =>
                /\ Len(reports) = 1 /\ reports[1].level = "ERROR"
                /\ result = "CANCELLED"

\* the last five characters of path are '.json' in some letter case
JsonSuffix(path) ==
    /\ Len(path) >= 5
    /\ path[Len(path) - 4] = "."
    /\ path[Len(path) - 3] \in {"j", "J"}
    /\ path[Len(path) - 2] \in {"s", "S"}
    /\ path[Len(path) - 1] \in {"o", "O"}
    /\ path[Len(path)] \in {"n", "N"}

\* C15: export_engines and export_thrusters_old never write to a path that
\* ends in '.json': a filepath ending in '.json' in any letter case is
\* written to with its last five characters replaced by '.xml', every other
\* filepath as it is.
C15_JsonSuffixReplaced ==
    (ExportSelectedRan /\ pre.filepath # <<>>) =>
        /\ FileCalls # {}
        /\ \A k \in FileCalls :
            /\ ~JsonSuffix(hostlog[k].path)
            /\ hostlog[k].path =
                    IF JsonSuffix(pre.filepath)
                    THEN SubSeq(pre.filepath, 1, Len(pre.filepath) - 5) \o <<".", "x", "m", "l">>
                    ELSE pre.filepath
        /\ \A path \in DOMAIN files : \E k \in FileCalls : hostlog[k].path = path

\* C15 witness: 'a.Json' was written as 'a.xml'
C15_Witness ==
    /\ ExportSelectedRan
    /\ pre.filepath = <<"a", ".", "J", "s", "o", "n">>
    /\ result = "FINISHED"
    /\ DOMAIN files = {<<"a", ".", "x", "m", "l">>}

BakeRan == op \in {"bake_thruster_meta", "bake_engine_meta"}

\* the props group and the custom property of the bake operator that ran
BakedProps(o) == IF op = "bake_thruster_meta" THEN thruster_props(o) ELSE engine_props(o)

BakedMeta(o) == IF op = "bake_thruster_meta" THEN o.thruster_meta ELSE o.engine_meta

\* the selected objects the operator that ran works on
BakeTargets == {i \in selected : BakedProps(objects[i]) # NoneV}

BakeRaised == {i \in BakeTargets : \E f \in pre.failing : f.obj = i}

AddRan == op \in {"add_thruster", "add_engine"}

\* C17: add_thruster (add_engine) always returns FINISHED; when no host call
\* raises, the one object it created is named 'Thruster...' ('Engine...'),
\* carries _is_thruster (_is_engine) and _no_export, has rotation
\* (0, -pi/2, 0), is the only selected object and the active one, and the
\* thruster (engine) panel's poll is true.
C17_AddCreatesSelectedObject ==
    AddRan =>
        /\ result = "FINISHED"
        /\ Len(objects) = pre.objects + 1
        /\ pre.failing = {} =>
            LET o == objects[Len(objects)]
            IN /\ o.rotation_euler = <<0, -1, 0>>
               /\ o.no_export
               /\ o.in_scene
               /\ selected = {Len(objects)}
               /\ active = Len(objects)
               /\ IF op = "add_thruster"
                  THEN o.name[1] = "Thruster" /\ o.is_thruster /\ thruster_panel_poll
                  ELSE o.name[1] = "Engine" /\ o.is_engine /\ engine_panel_poll

\* C17 witness: a thruster added to a scene whose first object was selected
\* and active
C17_Witness ==
    /\ op = "add_thruster"
    /\ pre.failing = {}
    /\ pre.objects = 1
    /\ selected = {2}
    /\ active = 2
    /\ objects[2].is_thruster

\* C18: after any sequence of register() and unregister() calls that ends
\* with unregister() no class of classes is registered, neither menu function
\* is appended to its menu and Object has neither props pointer; after
\* register() all of them are there.
C18_RegisterUnregisterRoundTrip ==
    /\ op = "unregister" =>
            /\ host.registered = {}
            /\ \A k \in 1..Len(host.add_menu) : host.add_menu[k] # "menu_func"
            /\ \A k \in 1..Len(host.export_menu) : host.export_menu[k] # "export_menu_func"
            /\ ~has_tp /\ ~has_ep
    /\ op = "register" =>
            /\ host.registered = ClassSet
            /\ \E k \in 1..Len(host.add_menu) : host.add_menu[k] = "menu_func"
            /\ \E k \in 1..Len(host.export_menu) : host.export_menu[k] = "export_menu_func"
            /\ has_tp /\ has_ep

\* a thruster as add_thruster names it, with the property group untouched
UneditedThruster(i) ==
    /\ StartsWith(objects[i].name, "Thruster")
    /\ objects[i].tp = ThrusterProperties

\* the Thruster element of object i carries the property-group defaults
DefaultsExported(i) ==
    /\ Cardinality(ChildrenOf("Thruster", objects[i].name)) = 1
    /\ \A k \in ChildrenOf("Thruster", objects[i].name) :
        LET el == root.children[k]
        IN /\ Child(el, "Thrust").attrib.N = "40.0"
           /\ Child(el, "SpecificImpulse").attrib.Seconds = "0.0"
           /\ Child(el, "MinimumPulseTime").attrib.Seconds = "0.0"
           /\ Child(el, "VolumetricExhaust").attrib.Id = "ApolloRCS"
           /\ Child(el, "SoundEvent").attrib.SoundId = "DefaultRcdThruster"
           /\ Child(el, "ControlMap").attrib.CSV = ""

ThrusterSerializers ==
    {"utils._thruster_dict_to_xml_element", "__init__._thruster_dict_to_xml_element"}

\* the tags of an element's children, in order
Tags(el) == [k \in 1..Len(el.children) |-> el.children[k].tag]

\* the tags a Thruster element has after an optional Location
ThrusterTags ==
    <<"ExhaustDirection", "ControlMap", "Thrust", "SpecificImpulse",
      "MinimumPulseTime", "VolumetricExhaust", "SoundEvent">>

\* the dict's location is None or empty
NoLocation(d) == Get(d, "location", L(<<Fl(0), Fl(0), Fl(0)>>)) \in {NoneV, L(<<>>)}

\* C20: every call of _thruster_dict_to_xml_element (utils.py and __init__.py)
\* appends exactly one child to the parent, a Thruster whose Id is the dict's
\* name or 'Unnamed', whose children are an optional Location (left out only
\* when the location is None or empty), ExhaustDirection, ControlMap, Thrust,
\* SpecificImpulse, MinimumPulseTime, VolumetricExhaust and SoundEvent with
\* Action='On', in this order and once each; the dict, the parent's tag and
\* attributes and the parent's earlier children stay as they were.
C20_ThrusterElementShape ==
    [][op' \in ThrusterSerializers =>
        LET n == Len(root.children)
            th == root'.children[n + 1]
        IN /\ Len(root'.children) = n + 1
           /\ SubSeq(root'.children, 1, n) = root.children
           /\ root'.tag = root.tag /\ root'.attrib = root.attrib
           /\ arg' = arg
           /\ th.tag = "Thruster"
           /\ th.attrib = [Id |-> Get(arg, "name", <<"Unnamed">>)]
           /\ Tags(th) = (IF NoLocation(arg) THEN <<>> ELSE <<"Location">>) \o ThrusterTags
           /\ th.children[Len(th.children)].attrib.Action = "On"]_vars

\* C20 witness: the second call on one parent, with a dict whose location is
\* the empty list: a seven-child Thruster after an earlier child
C20_Witness ==
    /\ op \in ThrusterSerializers
    /\ Len(root.children) = 2
    /\ "location" \in DOMAIN arg /\ arg.location = L(<<>>)
    /\ Tags(LastChild) = ThrusterTags

\* C20 second witness: a dict without fx_location whose location is there: the
\* Thruster has its Location first
C20_WitnessLocation ==
    /\ op \in ThrusterSerializers
    /\ "location" \in DOMAIN arg /\ Truthy(arg.location)
    /\ "fx_location" \in DOMAIN arg /\ arg.fx_location = NoneV
    /\ Tags(LastChild) = <<"Location">> \o ThrusterTags

\* the positions in hostlog of the calls named call
CallsOf(call) == {k \in 1..Len(hostlog) : hostlog[k].call = call}

\* the positions in hostlog of the calls named call on target
CallsOn(call, target) == {k \in CallsOf(call) : hostlog[k].path = <<target>>}

\* every call at a position of earlier comes before every call at a position
\* of later
Before(earlier, later) == \A i \in earlier, j \in later : i < j

\* C21: register() calls register_class on ThrusterProperties and
\* EngineProperties before it assigns the pointer properties and before it
\* appends the menu entries; unregister() removes the menu entries, then
\* deletes the pointer properties, then unregisters the classes in the reverse
\* of their registration order; and whichever calls raise, each later step is
\* still entered: every class is registered or unregistered in turn, the
\* pointer step and the menu step begin.
C21_LifecycleOrder ==
    /\ op = "register" =>
        /\ Cardinality(CallsOn("register_class", "ThrusterProperties")) = 1
        /\ Cardinality(CallsOn("register_class", "EngineProperties")) = 1
        /\ Before(CallsOn("register_class", "ThrusterProperties")
                    \cup CallsOn("register_class", "EngineProperties"),
                  CallsOf("setattr") \cup CallsOf("append"))
        /\ \A c \in ClassSet : CallsOn("register_class", c) # {}
        /\ CallsOn("setattr", "thruster_props") # {}
        /\ CallsOn("append", "VIEW3D_MT_add") # {}
    /\ op = "unregister" =>
        /\ Before(CallsOf("remove"), CallsOf("delattr"))
        /\ Before(CallsOf("delattr"), CallsOf("unregister_class"))
        /\ CallsOn("remove", "VIEW3D_MT_add") # {}
        /\ CallsOn("delattr", "thruster_props") # {}
        /\ Cardinality(CallsOf("unregister_class")) = Len(classes)
        /\ \A a, b \in 1..Len(classes) :
            a < b => Before(CallsOn("unregister_class", classes[b]),
                            CallsOn("unregister_class", classes[a]))
        /\ \A c \in ClassSet : CallsOn("unregister_class", c) # {}

\* C21 witness: register() went on to the menus after the pointer assignment
\* raised
C21_Witness ==
    /\ op = "register"
    /\ \E k \in CallsOf("setattr") :
        /\ ~hostlog[k].ok
        /\ \E j \in CallsOf("append") : j > k /\ hostlog[j].ok

\* C21 second witness: unregister() went on to unregister registered classes
\* after the deletion of thruster_props raised
C21_WitnessUnregister ==
    /\ op = "unregister"
    /\ \E k \in CallsOf("delattr") :
        /\ ~hostlog[k].ok
        /\ \E j \in CallsOf("unregister_class") : j > k /\ hostlog[j].ok

\* C22: export_ksa_metadata.execute only reads the scene: whatever its
\* result, the objects (names, locations, rotations, thruster_props,
\* engine_props, custom properties, membership of the scene), the selection
\* and the active object are after the call what they were before it.
C22_KsaExportReadsOnly ==
    [][op' = "export_ksa_metadata" =>
        /\ objects' = objects
        /\ has_tp' = has_tp /\ has_ep' = has_ep
        /\ selected' = selected
        /\ active' = active]_vars

\* C22 witness: an export that failed on a scene with selected objects and an
\* active one, all still there
C22_Witness ==
    /\ op = "export_ksa_metadata"
    /\ result = "CANCELLED"
    /\ pre.scene
    /\ Len(objects) = 2
    /\ selected = {1, 2}
    /\ active = 2

\* C22 second witness: an export that went through, likewise
C22_WitnessFinished ==
    /\ op = "export_ksa_metadata"
    /\ result = "FINISHED"
    /\ Tagged("Thruster") # {}
    /\ selected # {}
    /\ active # 0

====
